---- MODULE Spec2Model ----
(***************************************************************************)
(* A1ToneDiscrimination: the data reorganisation and dataset-splitting     *)
(* pipeline (src/utils/process.py, src/autoencoder/dataset.py).            *)
(*                                                                         *)
(* Conventions.  A numpy array or Python list is a TLA+ sequence; Python   *)
(* index i is position i + 1.  A Python dict is a sequence of entries      *)
(* [k |-> key, v |-> value] in insertion order, which is the order dict    *)
(* iteration follows.  An inverse frequency 1 / f is the pair <<1, f>>.    *)
(***************************************************************************)
EXTENDS Integers, Sequences, FiniteSets, TLC

\* ------------------------------------------------------------------ bounds
\* retained trials per entity and fold counts tried by the split
MaxTrials == 3
MaxFolds == 2
\* behavior and passive trials held by the whole store read by _create_ds
MaxBehavior == 2
MaxPassive == 1
\* trials over the recordings handed to get_bad_trials, and cells per recording
MaxRawTrials == 2
MaxCells == 2
\* cells and trials of a recording handed to get_good_cells
MaxGoodCells == 3
MaxGoodTrials == 1
\* behavior trials, passive trials and cells of a raw file read by
\* organize_data, and the calls of organize_data on one destination
MaxOrgBehavior == 5
MaxOrgPassive == 1
MaxOrgCells == 2
MaxCalls == 2
\* train_config.batch_size
MaxBatch == 2
\* bag_of_neurons: the longest trials / freqs list a caller passes
MaxList == 3

\* Entity names (keys of the store, in its iteration order) and the labels
\* of config.include_trials that the label table carries.
EntityNames == <<"a", "b">>
Labels == {"hit", "miss"}
\* Argument types A1Dataset.__getitem__ does not index by.
OtherTypes == {"str", "float", "numpy_int64"}

\* Stimulus frequencies of the store and the trial_info channels of a
\* behavior group, in the order the group iterates (by name).
Freqs == {7000, 14000}
BehaviorChannels == <<"hit", "miss", "nontarget", "stimfrequency", "target", "target7k">>
PassiveChannels == <<"hit", "stimfrequency">>

VARIABLES
    \* the raw recordings handed to get_bad_trials and what it returns
    data, bad_trials,
    \* the store file, its handle, config.include_trials / include_freqs,
    \* the locals of the last iteration of _create_ds's loop, what it printed
    store, f, include_trials, include_freqs, cur, warnings,
    \* _create_ds: what the loop over the store leaves behind
    dff_all, licks_all, df, xv_folds,
    \* _train_valid_split
    pc, last_idx,
    dff_valid, dff_train, licks_valid, licks_train, valid_indxs, train_indxs,
    ranges_train, ranges_valid,
    \* the two A1Dataset instances and the outcome of the last __getitem__
    ds_train, ds_valid, last,
    \* organize_data: the store file on disk, the handle organize_data holds,
    \* the raw files under data_dir, how many were unpickled, the entity being
    \* written and what get_good_cells returned for it
    disk, h5_file, pkl, file_i, calls, reads, output, nb_std,
    \* create_a1_dataset: train_config, the sampler, one pass over it
    train_config, sampler, drawn,
    \* bag_of_neurons: its trials / freqs arguments and the four encoders
    bn_trials, bn_freqs, l2i, i2l, f2i, i2f,
    \* _train_valid_split: its random_state argument, the generator it
    \* creates, what numpy's generator has returned so far for a seed and a
    \* history of draws, and the outputs of an earlier call on the same arguments
    random_state, rng, stream, first_run

splitVars == <<pc, last_idx, dff_valid, dff_train, licks_valid, licks_train,
               valid_indxs, train_indxs, ranges_train, ranges_valid>>
rawVars == <<data, bad_trials>>
loadVars == <<store, f, include_trials, include_freqs, cur, warnings, rawVars>>
inputVars == <<dff_all, licks_all, df, xv_folds, loadVars>>
dsVars == <<ds_train, ds_valid, last>>
orgVars == <<disk, h5_file, pkl, file_i, calls, reads, output, nb_std>>
samplerVars == <<train_config, sampler, drawn>>
encVars == <<bn_trials, bn_freqs, l2i, i2l, f2i, i2f>>
seedVars == <<random_state, rng, stream, first_run>>
extVars == <<orgVars, samplerVars, encVars, seedVars>>
vars == <<inputVars, splitVars, dsVars, extVars>>

\* organize_data and create_a1_dataset have not been called
None == [none |-> TRUE, v |-> <<>>]
\* no earlier call of _train_valid_split to compare with
NoRun == [done |-> FALSE, outputs_train |-> <<>>, outputs_valid |-> <<>>]
\* the seed of a generator that was seeded from the operating system
Entropy == 0 - 1

\* mutant: the generator is created without the seed
NewRng_Unseeded(seed) == [seed |-> Entropy, hist |-> <<>>]

\* rng = np.random.RandomState(random_state): the seed and the draws made so far
NewRng(seed) == [seed |-> seed, hist |-> <<>>]
SeedIdle == random_state = 0 /\ rng = NewRng(random_state) /\ stream = <<>> /\ first_run = NoRun
NoFile == [exists |-> FALSE, items |-> <<>>]
NoSampler == [kind |-> "none", weights |-> <<>>, n |-> 0, num_samples |-> 0,
              replacement |-> FALSE]
NoConfig == [balanced_sampling |-> FALSE, replacement |-> FALSE, batch_size |-> 0]
ExtIdle ==
    /\ disk = NoFile /\ h5_file = "none" /\ pkl = <<>> /\ file_i = 0 /\ calls = 0 /\ reads = 0 /\ output = <<>>
    /\ nb_std = 1
    /\ train_config = NoConfig /\ sampler = NoSampler /\ drawn = <<>>
    /\ bn_trials = None /\ bn_freqs = None /\ l2i = <<>> /\ i2l = <<>> /\ f2i = <<>> /\ i2f = <<>>

\* ------------------------------------------------------------ generic helpers
RECURSIVE SumSeq(_)
SumSeq(s) == IF s = <<>> THEN 0 ELSE Head(s) + SumSeq(Tail(s))

RECURSIVE Flatten(_)
Flatten(ss) == IF ss = <<>> THEN <<>> ELSE Head(ss) \o Flatten(Tail(ss))

Range(s) == {s[j] : j \in 1..Len(s)}

\* dict lookup d[key] and dict keys / values in insertion order
Get(d, key) == d[CHOOSE j \in 1..Len(d) : d[j].k = key].v
Keys(d) == [j \in 1..Len(d) |-> d[j].k]
Values(d) == [j \in 1..Len(d) |-> d[j].v]
HasKey(d, key) == \E j \in 1..Len(d) : d[j].k = key

\* sorted(xs) for a set of distinct integers: the ascending sequence
RECURSIVE Sorted(_)
Sorted(S) ==
    IF S = {} THEN <<>>
    ELSE LET m == CHOOSE x \in S : \A y \in S : x <= y
         IN <<m>> \o Sorted(S \ {m})

\* np.arange(n)
Arange(n) == [j \in 1..n |-> j - 1]

\* arr[idxs] along the trial axis (integer-array indexing, 0-based indices)
Take(arr, idxs) == [j \in 1..Len(idxs) |-> arr[idxs[j] + 1]]

\* np.delete(arr, idxs): the elements whose position is not in idxs, in order
NpDelete(arr, idxs) ==
    LET keep == SelectSeq(Arange(Len(arr)), LAMBDA p : p \notin Range(idxs))
    IN Take(arr, keep)

\* ------------------------------------------------------- _train_valid_split
\* rng.choice(np.arange(n), size=k, replace=False): some k distinct indices
Choice(n, k) == {S \in SUBSET (0..(n - 1)) : Cardinality(S) = k}

\* What a generator returns is a function of its seed and of the draws made
\* on it, this one included: the key under which stream remembers it.
DrawKey(g, n, k) == <<g.seed, Append(g.hist, <<n, k>>)>>
\* a generator seeded from the operating system repeats nothing
Repeats(g, n, k) == g.seed # Entropy /\ HasKey(stream, DrawKey(g, n, k))
\* the outcomes of rng.choice on generator g: the one numpy gave before for
\* this seed and history, any if there was none
Outcomes(g, n, k) ==
    IF Repeats(g, n, k) THEN {Get(stream, DrawKey(g, n, k))} ELSE Choice(n, k)

\* mutant: an entity with trials always gives one of them to validation
ValidSize_AtLeastOne(num_samples, folds) ==
    IF num_samples > 0 /\ num_samples \div folds = 0 THEN 1 ELSE num_samples \div folds

ValidSize(num_samples, folds) == num_samples \div folds

\* mutant: the validation indices are not deleted from the train indices
TrainIdx_KeepAll(num_samples, valid_) == Arange(num_samples)

TrainIdx(num_samples, valid_) == NpDelete(Arange(num_samples), valid_)

\* mutant: the running counter is not added to the local indices
GlobalIdx_NoOffset(local, offset) == local

GlobalIdx(local, offset) == [j \in 1..Len(local) |-> local[j] + offset]

\* the range map of one partition: (last_idx, last_idx + len(v)) per entity
RECURSIVE BuildRangesFrom(_, _)
BuildRangesFrom(indxs, start) ==
    IF indxs = <<>> THEN <<>>
    ELSE LET e == Head(indxs)
         IN <<[k |-> e.k, v |-> <<start, start + Len(e.v)>>]>>
            \o BuildRangesFrom(Tail(indxs), start + Len(e.v))

\* mutant: last_idx is never advanced
BuildRanges_NoAdvance(indxs) ==
    [j \in 1..Len(indxs) |-> [k |-> indxs[j].k, v |-> <<0, Len(indxs[j].v)>>]]

\* mutant: the interval ends at len(v) instead of last_idx + len(v)
BuildRanges_EndIsLen(indxs) ==
    [j \in 1..Len(indxs) |->
        [k |-> indxs[j].k,
         v |-> <<SumSeq([m \in 1..(j - 1) |-> Len(indxs[m].v)]), Len(indxs[j].v)>>]]

BuildRanges(indxs) == BuildRangesFrom(indxs, 0)

\* ------------------------------------------------------------------ A1Dataset
NoDataset == [dff |-> <<>>, licks |-> <<>>, ranges |-> <<>>, df |-> <<>>,
              sample_weights |-> <<>>, built |-> FALSE]

\* A1Dataset.__len__
DsLen(licks) == SumSeq([j \in 1..Len(licks) |-> Len(licks[j].v)])

\* mutant: a label's frequency is taken to be the length of the table
CountLabel_TableLength(table, lbl) == Len(table)

CountLabel(table, lbl) == Cardinality({p \in 1..Len(table) : table[p].label = lbl})

\* mutant: every sample weighs 1 / len(df)
ComputeSampleWeights_Uniform(n, table) == [p \in 1..n |-> <<1, Len(table)>>]

\* A1Dataset._compute_sample_weights
ComputeSampleWeights(n, table) ==
    [p \in 1..n |->
        IF p <= Len(table) THEN <<1, CountLabel(table, table[p].label)>>
        ELSE <<1, 1>>]

\* df.iloc[rows] for 0-based row positions
ILoc(table, rows) == Take(table, rows)

\* A1Dataset.__init__
NewDataset(dff, licks, ranges, table) ==
    [dff |-> dff, licks |-> licks, ranges |-> ranges, df |-> table,
     sample_weights |-> ComputeSampleWeights(DsLen(licks), table),
     built |-> TRUE]

\* ------------------------------------------------------------- index requests
IntReq(i) == [kind |-> "int", i |-> i, xs |-> <<>>, start |-> 0, stop |-> 0,
              step |-> 1, none |-> {}, type |-> "int"]
ListReq(xs) == [kind |-> "list", i |-> 0, xs |-> xs, start |-> 0, stop |-> 0,
                step |-> 1, none |-> {}, type |-> "list"]
RangeReq(a, b, c) == [kind |-> "range", i |-> 0, xs |-> <<>>, start |-> a,
                      stop |-> b, step |-> c, none |-> {}, type |-> "range"]
SliceReq(a, b, c, none) == [kind |-> "slice", i |-> 0, xs |-> <<>>, start |-> a,
                            stop |-> b, step |-> c, none |-> none, type |-> "slice"]
OtherReq(t) == [kind |-> "other", i |-> 0, xs |-> <<>>, start |-> 0, stop |-> 0,
                step |-> 1, none |-> {}, type |-> t]
NoReq == OtherReq("none")

\* list(range(start, stop, step)), step # 0
PyRange(start, stop, step) ==
    LET span == IF step > 0 THEN stop - start ELSE start - stop
        mag == IF step > 0 THEN step ELSE 0 - step
        n == IF span <= 0 THEN 0 ELSE (span + mag - 1) \div mag
    IN [j \in 1..n |-> start + (j - 1) * step]

\* slice(start, stop, step).indices(length); a field named in none is None
SliceIndices(req, length) ==
    LET step == IF "step" \in req.none THEN 1 ELSE req.step
        lower == IF step < 0 THEN 0 - 1 ELSE 0
        upper == IF step < 0 THEN length - 1 ELSE length
        Clamp(x) == IF x < 0
                    THEN (IF x + length < lower THEN lower ELSE x + length)
                    ELSE (IF x > upper THEN upper ELSE x)
        start == IF "start" \in req.none
                 THEN (IF step < 0 THEN upper ELSE lower)
                 ELSE Clamp(req.start)
        stop == IF "stop" \in req.none
                THEN (IF step < 0 THEN lower ELSE upper)
                ELSE Clamp(req.stop)
    IN <<start, stop, step>>

\* mutant: the interval test is a <= idx <= b
PairsFor_Closed(ranges, idx) ==
    LET hits == SelectSeq(ranges, LAMBDA r : r.v[1] <= idx /\ idx <= r.v[2])
    IN [j \in 1..Len(hits) |-> [k |-> hits[j].k, i |-> idx - hits[j].v[1]]]

\* the (k, idx - a) pairs one index yields, in ranges.items() order
PairsFor(ranges, idx) ==
    LET hits == SelectSeq(ranges, LAMBDA r : r.v[1] <= idx /\ idx < r.v[2])
    IN [j \in 1..Len(hits) |-> [k |-> hits[j].k, i |-> idx - hits[j].v[1]]]

RECURSIVE Resolve(_, _)
\* the generator expression, flattened in iteration order
Resolve(ranges, idxs) ==
    IF idxs = <<>> THEN <<>>
    ELSE PairsFor(ranges, Head(idxs)) \o Resolve(ranges, Tail(idxs))

\* the idxs that A1Dataset._generate_idxs iterates for a request
Idxs(req, length) ==
    CASE req.kind = "int" -> <<req.i>>
      [] req.kind = "list" -> req.xs
      [] req.kind = "range" -> PyRange(req.start, req.stop, req.step)
      [] req.kind = "slice" ->
            LET t == SliceIndices(req, length) IN PyRange(t[1], t[2], t[3])
      [] OTHER -> <<>>

\* mutant: an unsupported index type is taken for an empty list of indices
GenerateIdxs_NoRaise(ranges, length, req) ==
    [err |-> "none", pairs |-> Resolve(ranges, Idxs(req, length))]

\* A1Dataset._generate_idxs
GenerateIdxs(ranges, length, req) ==
    IF req.kind \in {"int", "list", "range", "slice"}
    THEN [err |-> "none", pairs |-> Resolve(ranges, Idxs(req, length))]
    ELSE [err |-> "RuntimeError: invalid indexing encountered", pairs |-> <<>>]

\* mutant: the label table is not filtered by entity name
RowsOf_AnyName(table, name) == table

\* rows of the label table with df.name == name, in table order
RowsOf(table, name) == SelectSeq(table, LAMBDA r : r.name = name)

\* A1Dataset.__getitem__
GetItem(ds, req) ==
    LET g == GenerateIdxs(ds.ranges, DsLen(ds.licks), req)
        InBounds(p) == /\ p.i < Len(RowsOf(ds.df, p.k))
                       /\ p.i < Len(Get(ds.dff, p.k))
                       /\ p.i < Len(Get(ds.licks, p.k))
        Sample(p) == [name |-> p.k,
                      label |-> RowsOf(ds.df, p.k)[p.i + 1].label,
                      row |-> RowsOf(ds.df, p.k)[p.i + 1],
                      dff |-> Get(ds.dff, p.k)[p.i + 1],
                      lick |-> Get(ds.licks, p.k)[p.i + 1]]
    IN IF g.err # "none" THEN [err |-> g.err, pairs |-> g.pairs, data |-> <<>>]
       ELSE IF \E j \in 1..Len(g.pairs) : ~InBounds(g.pairs[j])
       THEN [err |-> "IndexError", pairs |-> g.pairs, data |-> <<>>]
       ELSE IF g.pairs = <<>>
       THEN [err |-> "ValueError: need at least one array to concatenate",
             pairs |-> g.pairs, data |-> <<>>]
       ELSE [err |-> "none", pairs |-> g.pairs,
             data |-> [j \in 1..Len(g.pairs) |-> Sample(g.pairs[j])]]

\* ------------------------------------------------------------------ Init
\* no __getitem__ call in flight
NoResult == [ds |-> "none", req |-> NoReq, err |-> "none", pairs |-> <<>>, data |-> <<>>]

\* the trial axis of an entity's tensor: one column per retained trial
Columns(name, n, what) == [t \in 1..n |-> [name |-> name, trial |-> t - 1, of |-> what]]

\* the label columns tried for an entity: its hit trials, then its miss trials
LabelSeqs ==
    {[t \in 1..n |-> IF t <= h THEN "hit" ELSE "miss"] : n \in 0..MaxTrials, h \in 0..MaxTrials}

TableOf(name, labs) ==
    [t \in 1..Len(labs) |-> [name |-> name, label |-> labs[t], freq |-> 7000, trial |-> t - 1]]

\* no raw recording is being processed
NoData == [is_list |-> TRUE, recs |-> <<>>]

\* no iteration of the loop over the store has run
NoEntity == [name |-> "none", ntrials_b |-> 0, ntrials_p |-> 0, trial_labels |-> <<>>,
             stim_freqs |-> <<>>, include_indxs |-> <<>>, dff |-> <<>>, licks |-> <<>>]

SplitInit ==
    \E ne \in 1..Len(EntityNames) : \E labs \in [1..ne -> LabelSeqs] :
        /\ dff_all = [e \in 1..ne |->
                        [k |-> EntityNames[e], v |-> Columns(EntityNames[e], Len(labs[e]), "dff")]]
        /\ licks_all = [e \in 1..ne |->
                        [k |-> EntityNames[e], v |-> Columns(EntityNames[e], Len(labs[e]), "lick")]]
        /\ df = Flatten([e \in 1..ne |-> TableOf(EntityNames[e], labs[e])])
        /\ xv_folds \in 1..MaxFolds
        /\ store = <<>> /\ f = "closed" /\ cur = NoEntity /\ warnings = <<>>
        /\ data = NoData /\ bad_trials = <<>>
        /\ include_trials = Labels /\ include_freqs = {7000}
        /\ pc = "split"
        /\ last_idx = 0
        /\ dff_valid = <<>> /\ dff_train = <<>>
        /\ licks_valid = <<>> /\ licks_train = <<>>
        /\ valid_indxs = <<>> /\ train_indxs = <<>>
        /\ ranges_train = <<>> /\ ranges_valid = <<>>
        /\ ds_train = NoDataset /\ ds_valid = NoDataset
        /\ last = NoResult

Init == SplitInit /\ ExtIdle /\ SeedIdle

\* the seeds tried for the generator
Seeds == {0, 1}

\* _train_valid_split is about to run its loop for the first of two calls
InitTwoRuns ==
    /\ SplitInit /\ ExtIdle
    /\ random_state \in Seeds
    /\ rng = NewRng(random_state)
    /\ stream = <<>>
    /\ first_run = NoRun

\* ------------------------------------------------------------------ actions
\* one iteration of the loop over dff_all.items()
SplitEntity ==
    /\ pc = "split"
    /\ Len(train_indxs) < Len(dff_all)
    /\ LET entry == dff_all[Len(train_indxs) + 1]
           name == entry.k
           dff == entry.v
           num_samples == Len(dff)
           size == ValidSize(num_samples, xv_folds)
       IN \E chosen \in Outcomes(rng, num_samples, size) :
            LET valid_ == Sorted(chosen)
                train_ == TrainIdx(num_samples, valid_)
            IN /\ stream' = IF rng.seed = Entropy \/ Repeats(rng, num_samples, size)
                            THEN stream
                            ELSE Append(stream, [k |-> DrawKey(rng, num_samples, size),
                                                 v |-> chosen])
               /\ rng' = [rng EXCEPT !.hist = Append(@, <<num_samples, size>>)]
               /\ dff_valid' = Append(dff_valid, [k |-> name, v |-> Take(dff, valid_)])
               /\ dff_train' = Append(dff_train, [k |-> name, v |-> Take(dff, train_)])
               /\ licks_valid' = Append(licks_valid,
                                    [k |-> name, v |-> Take(Get(licks_all, name), valid_)])
               /\ licks_train' = Append(licks_train,
                                    [k |-> name, v |-> Take(Get(licks_all, name), train_)])
               /\ valid_indxs' = Append(valid_indxs, [k |-> name, v |-> GlobalIdx(valid_, last_idx)])
               /\ train_indxs' = Append(train_indxs, [k |-> name, v |-> GlobalIdx(train_, last_idx)])
               /\ last_idx' = last_idx + num_samples
    /\ UNCHANGED <<orgVars, samplerVars, encVars, random_state, first_run, pc,
                   ranges_train, ranges_valid, inputVars, dsVars>>

\* the two range-map loops and the return
SplitRanges ==
    /\ pc = "split"
    /\ Len(train_indxs) = Len(dff_all)
    /\ ranges_train' = BuildRanges(train_indxs)
    /\ ranges_valid' = BuildRanges(valid_indxs)
    /\ last_idx' = SumSeq([j \in 1..Len(valid_indxs) |-> Len(valid_indxs[j].v)])
    /\ pc' = "construct"
    /\ UNCHANGED <<extVars, dff_valid, dff_train, licks_valid, licks_train, valid_indxs,
                   train_indxs, inputVars, dsVars>>

\* _create_ds: the two A1Dataset constructions
CreateDatasets ==
    /\ pc = "construct"
    /\ ds_train' = NewDataset(dff_train, licks_train, ranges_train,
                              ILoc(df, Flatten(Values(train_indxs))))
    /\ ds_valid' = NewDataset(dff_valid, licks_valid, ranges_valid,
                              ILoc(df, Flatten(Values(valid_indxs))))
    /\ pc' = "ready"
    /\ UNCHANGED <<extVars, last_idx, dff_valid, dff_train, licks_valid, licks_train,
                   valid_indxs, train_indxs, ranges_train, ranges_valid,
                   inputVars, last>>

\* the index requests tried against a dataset of the given length
IndexValues(length) == (0 - 1)..length
Requests(length) ==
    {IntReq(i) : i \in IndexValues(length)}
    \cup {ListReq(<<>>)}
    \cup {ListReq(<<i, j>>) : i \in IndexValues(length), j \in {0, length - 1, length}}
    \cup {RangeReq(a, b, 1) : a \in {0, 1}, b \in {length, length + 1}}
    \cup {SliceReq(a, length + 1, c, none) : a \in {0 - 1, 1}, c \in {0 - 1, 2},
                                            none \in {{}, {"start", "stop"}}}
    \cup {OtherReq(t) : t \in OtherTypes}

Dataset(which) == IF which = "train" THEN ds_train ELSE ds_valid

\* mutant: __getitem__ keeps the filtered label table (self.df = self.df.loc[
\* self.df.name == name]) of the entities it read
Index_KeepsFilteredTable ==
    /\ pc = "ready"
    /\ last.ds = "none"
    /\ \E which \in {"train", "valid"} :
         \E req \in Requests(DsLen(Dataset(which).licks)) :
            LET r == GetItem(Dataset(which), req)
                Read(table) ==
                    IF r.pairs = <<>> THEN table
                    ELSE SelectSeq(table, LAMBDA row :
                                      \E j \in 1..Len(r.pairs) : r.pairs[j].k = row.name)
            IN /\ last' = [ds |-> which, req |-> req, err |-> r.err, pairs |-> r.pairs,
                           data |-> r.data]
               /\ ds_train' = IF which = "train" THEN [ds_train EXCEPT !.df = Read(@)]
                              ELSE ds_train
               /\ ds_valid' = IF which = "valid" THEN [ds_valid EXCEPT !.df = Read(@)]
                              ELSE ds_valid
    /\ UNCHANGED <<extVars, inputVars, splitVars>>

\* ds[idx]
Index ==
    /\ pc = "ready"
    /\ last.ds = "none"
    /\ \E which \in {"train", "valid"} :
         \E req \in Requests(DsLen(Dataset(which).licks)) :
            LET r == GetItem(Dataset(which), req)
            IN last' = [ds |-> which, req |-> req, err |-> r.err, pairs |-> r.pairs,
                        data |-> r.data]
    /\ UNCHANGED <<extVars, inputVars, splitVars, ds_train, ds_valid>>

\* the caller takes the returned batch (or the exception) and goes on
Return ==
    /\ pc = "ready"
    /\ last.ds # "none"
    /\ last' = NoResult
    /\ UNCHANGED <<extVars, inputVars, splitVars, ds_train, ds_valid>>

Next == SplitEntity \/ SplitRanges \/ CreateDatasets \/ Index \/ Return

Spec == Init /\ [][Next]_vars

\* what _train_valid_split returns
Outputs ==
    [done |-> TRUE,
     outputs_train |-> <<dff_train, licks_train, ranges_train, train_indxs>>,
     outputs_valid |-> <<dff_valid, licks_valid, ranges_valid, valid_indxs>>]

\* _train_valid_split is called again on the same arguments: lines 270-281
\* create the generator from random_state and empty the locals
Rerun ==
    /\ pc = "construct"
    /\ ~first_run.done
    /\ first_run' = Outputs
    /\ rng' = NewRng(random_state)
    /\ last_idx' = 0
    /\ dff_valid' = <<>> /\ dff_train' = <<>>
    /\ licks_valid' = <<>> /\ licks_train' = <<>>
    /\ valid_indxs' = <<>> /\ train_indxs' = <<>>
    /\ ranges_train' = <<>> /\ ranges_valid' = <<>>
    /\ pc' = "split"
    /\ UNCHANGED <<orgVars, samplerVars, encVars, random_state, stream, inputVars, dsVars>>

NextTwoRuns == SplitEntity \/ SplitRanges \/ Rerun

SpecTwoRuns == InitTwoRuns /\ [][NextTwoRuns]_vars

\* ----------------------------------------------- _create_ds: reading the store
\* 'target' in k, for the channel names of the store
ContainsTarget(k) == k \in {"target", "nontarget", "target7k"}

\* mutant: a trial keeps the first label it was given
RECURSIVE RelabelBy_FirstWins(_, _)
RelabelBy_FirstWins(labels, channels) ==
    IF channels = <<>> THEN labels
    ELSE LET c == Head(channels)
             relabeled == IF ContainsTarget(c.k) THEN labels
                          ELSE [t \in 1..Len(labels) |->
                                   IF c.v[t] = 1 /\ labels[t] = "_null_" THEN c.k
                                   ELSE labels[t]]
         IN RelabelBy_FirstWins(relabeled, Tail(channels))

\* the labels after the loop over trial_info_b.items(): a channel whose name
\* does not contain 'target' relabels every trial where it equals 1
RECURSIVE RelabelBy(_, _)
RelabelBy(labels, channels) ==
    IF channels = <<>> THEN labels
    ELSE LET c == Head(channels)
             relabeled == IF ContainsTarget(c.k) THEN labels
                          ELSE [t \in 1..Len(labels) |->
                                   IF c.v[t] = 1 THEN c.k ELSE labels[t]]
         IN RelabelBy(relabeled, Tail(channels))

\* mutant: the passive trials are labelled from the passive indicator channels
TrialLabels_PassiveByIndicator(trial_info_b, trial_info_p, ntrials_b, ntrials_p) ==
    RelabelBy([t \in 1..ntrials_b |-> "_null_"], trial_info_b)
        \o RelabelBy([t \in 1..ntrials_p |-> "passive"], trial_info_p)

\* trial_labels, as the list of its values in key order 0 .. ntrials_b + ntrials_p - 1
TrialLabels(trial_info_b, trial_info_p, ntrials_b, ntrials_p) ==
    RelabelBy([t \in 1..ntrials_b |-> "_null_"], trial_info_b)
        \o [t \in 1..ntrials_p |-> "passive"]

\* mutant: a trial is kept when its label or its frequency is allowed
IncludeIndxs_Or(labels, stim_freqs, trials_allowed, freqs_allowed) ==
    SelectSeq(Arange(Len(labels)),
              LAMBDA i : labels[i + 1] \in trials_allowed \/ stim_freqs[i + 1] \in freqs_allowed)

\* include_indxs = np.where(np.logical_and(trial_bool, freq_bool))[0]
IncludeIndxs(labels, stim_freqs, trials_allowed, freqs_allowed) ==
    SelectSeq(Arange(Len(labels)),
              LAMBDA i : labels[i + 1] \in trials_allowed /\ stim_freqs[i + 1] \in freqs_allowed)

\* mutant: where target and nontarget are both 1 the target lick column wins
Licks_TargetLast(behavior, ntrials_b, ntrials_p) ==
    LET target == Get(behavior.trial_info, "target")
        nontarget == Get(behavior.trial_info, "nontarget")
    IN [t \in 1..ntrials_b |->
            IF target[t] = 1 THEN behavior.targetlick[t]
            ELSE IF nontarget[t] = 1 THEN behavior.nontargetlick[t]
            ELSE [trial |-> t - 1, of |-> "zeros"]]
       \o [t \in 1..ntrials_p |-> [trial |-> ntrials_b + t - 1, of |-> "zeros"]]

\* the lick tensor before filtering: targetlick where target == 1, then
\* nontargetlick where nontarget == 1, zeros elsewhere and for passive trials
Licks(behavior, ntrials_b, ntrials_p) ==
    LET target == Get(behavior.trial_info, "target")
        nontarget == Get(behavior.trial_info, "nontarget")
    IN [t \in 1..ntrials_b |->
            IF nontarget[t] = 1 THEN behavior.nontargetlick[t]
            ELSE IF target[t] = 1 THEN behavior.targetlick[t]
            ELSE [trial |-> t - 1, of |-> "zeros"]]
       \o [t \in 1..ntrials_p |-> [trial |-> ntrials_b + t - 1, of |-> "zeros"]]

\* the store: per entity a behavior and a passive group
BehaviorKinds ==
    LET Kind(h, m, t, n) ==
            [hit |-> h, miss |-> m, target |-> t, nontarget |-> n,
             stimfrequency |-> IF t = 1 THEN 7000 ELSE 14000, target7k |-> t]
    IN {Kind(hm[1], hm[2], t, 1 - t) : hm \in {<<0, 0>>, <<1, 0>>, <<0, 1>>}, t \in {0, 1}}
       \cup {Kind(1, 1, 1, 1), Kind(1, 1, 0, 0)}
PassiveKinds == {[hit |-> 1, stimfrequency |-> 7000], [hit |-> 0, stimfrequency |-> 14000]}

BehaviorSeqs == UNION {[1..n -> BehaviorKinds] : n \in 0..MaxBehavior}
PassiveSeqs == UNION {[1..n -> PassiveKinds] : n \in 0..MaxPassive}

TrialInfo(channels, trials) ==
    [c \in 1..Len(channels) |->
        [k |-> channels[c], v |-> [t \in 1..Len(trials) |-> trials[t][channels[c]]]]]

Group(b, p) ==
    [behavior |-> [dff |-> [t \in 1..Len(b) |-> [trial |-> t - 1, of |-> "behavior.dff"]],
                   targetlick |-> [t \in 1..Len(b) |-> [trial |-> t - 1, of |-> "targetlick"]],
                   nontargetlick |-> [t \in 1..Len(b) |-> [trial |-> t - 1, of |-> "nontargetlick"]],
                   trial_info |-> TrialInfo(BehaviorChannels, b)],
     passive |-> [dff |-> [t \in 1..Len(p) |-> [trial |-> Len(b) + t - 1, of |-> "passive.dff"]],
                  trial_info |-> TrialInfo(PassiveChannels, p)]]

Configs == {{"hit", "passive"}, {"hit", "miss", "_null_"}}

InitCreateDs ==
    /\ \E ne \in 1..Len(EntityNames) :
        \E bs \in {x \in [1..ne -> BehaviorSeqs] :
                      SumSeq([e \in 1..ne |-> Len(x[e])]) <= MaxBehavior} :
        \E ps \in {x \in [1..ne -> PassiveSeqs] :
                      SumSeq([e \in 1..ne |-> Len(x[e])]) <= MaxPassive} :
            store = [e \in 1..ne |-> [k |-> EntityNames[e], v |-> Group(bs[e], ps[e])]]
    /\ f = "open"
    /\ include_trials \in Configs
    /\ include_freqs = {7000}
    /\ cur = NoEntity /\ warnings = <<>>
    /\ data = NoData /\ bad_trials = <<>>
    /\ dff_all = <<>> /\ licks_all = <<>> /\ df = <<>>
    /\ xv_folds = 1
    /\ pc = "load"
    /\ last_idx = 0
    /\ dff_valid = <<>> /\ dff_train = <<>>
    /\ licks_valid = <<>> /\ licks_train = <<>>
    /\ valid_indxs = <<>> /\ train_indxs = <<>>
    /\ ranges_train = <<>> /\ ranges_valid = <<>>
    /\ ds_train = NoDataset /\ ds_valid = NoDataset
    /\ last = NoResult
    /\ ExtIdle /\ SeedIdle

\* one iteration of the loop over the names of the store
LoadEntity ==
    /\ pc = "load"
    /\ Len(dff_all) < Len(store)
    /\ LET name == store[Len(dff_all) + 1].k
           behavior == store[Len(dff_all) + 1].v.behavior
           passive == store[Len(dff_all) + 1].v.passive
           ntrials_b == Len(behavior.dff)
           ntrials_p == Len(passive.dff)
           dff == behavior.dff \o passive.dff
           licks == Licks(behavior, ntrials_b, ntrials_p)
           trial_labels == TrialLabels(behavior.trial_info, passive.trial_info,
                                       ntrials_b, ntrials_p)
           stim_freqs == Get(behavior.trial_info, "stimfrequency")
                            \o Get(passive.trial_info, "stimfrequency")
           include_indxs == IncludeIndxs(trial_labels, stim_freqs,
                                         include_trials, include_freqs)
           trials == [j \in 1..Len(include_indxs) |-> trial_labels[include_indxs[j] + 1]]
           freqs == Take(stim_freqs, include_indxs)
           rows == [j \in 1..Len(include_indxs) |->
                      [name |-> name, label |-> trials[j], freq |-> freqs[j],
                       trial |-> include_indxs[j]]]
       IN /\ warnings' = IF "_null_" \in Range(trial_labels)
                         THEN Append(warnings, name) ELSE warnings
          /\ IF Len(dff) = Len(licks) /\ Len(licks) = Len(trial_labels)
                /\ Len(trial_labels) = Len(stim_freqs)
             THEN /\ dff_all' = Append(dff_all, [k |-> name, v |-> Take(dff, include_indxs)])
                  /\ licks_all' = Append(licks_all, [k |-> name, v |-> Take(licks, include_indxs)])
                  /\ df' = df \o rows
                  /\ cur' = [name |-> name, ntrials_b |-> ntrials_b, ntrials_p |-> ntrials_p,
                             trial_labels |-> trial_labels, stim_freqs |-> stim_freqs,
                             include_indxs |-> include_indxs, dff |-> dff, licks |-> licks]
                  /\ pc' = pc
             ELSE /\ pc' = "AssertionError"
                  /\ UNCHANGED <<dff_all, licks_all, df, cur>>
    /\ UNCHANGED <<extVars, store, f, include_trials, include_freqs, rawVars, xv_folds, last_idx,
                   dff_valid, dff_train, licks_valid, licks_train, valid_indxs,
                   train_indxs, ranges_train, ranges_valid, dsVars>>

\* df = reset_df(df); f.close()
CloseStore ==
    /\ pc = "load"
    /\ Len(dff_all) = Len(store)
    /\ f' = "closed"
    /\ pc' = "split"
    /\ UNCHANGED <<extVars, store, include_trials, include_freqs, cur, warnings, rawVars, dff_all,
                   licks_all, df, xv_folds, last_idx, dff_valid, dff_train,
                   licks_valid, licks_train, valid_indxs, train_indxs,
                   ranges_train, ranges_valid, dsVars>>

NextCreateDs == LoadEntity \/ CloseStore

SpecCreateDs == InitCreateDs /\ [][NextCreateDs]_vars

\* ------------------------------------------------- process.py: get_bad_trials
\* A float is [nan |-> BOOLEAN, v |-> value]; a tensor is its shape
\* (time, trial, cell) and its entries, indexed from 1.
NaN == [nan |-> TRUE, v |-> 0]
Float(x) == [nan |-> FALSE, v |-> x]

\* the square of np.linalg.norm(dff, axis=0, ord=2) at (trial, cell): NaN as
\* soon as one time point is NaN
NormSq(dff, trial, cell) ==
    IF \E t \in 1..dff.shape[1] : dff.a[<<t, trial, cell>>].nan
    THEN NaN
    ELSE Float(SumSeq([t \in 1..dff.shape[1] |->
                          dff.a[<<t, trial, cell>>].v * dff.a[<<t, trial, cell>>].v]))

\* mutant: np.any instead of np.all over the cell axis
BadTrialsOf_Any(dff) ==
    SelectSeq(Arange(dff.shape[2]),
              LAMBDA i : \E c \in 1..dff.shape[3] : NormSq(dff, i + 1, c).nan)

\* np.where(np.all(np.isnan(cells_norm), axis=1))[0]
BadTrialsOf(dff) ==
    SelectSeq(Arange(dff.shape[2]),
              LAMBDA i : \A c \in 1..dff.shape[3] : NormSq(dff, i + 1, c).nan)

\* get_bad_trials: a dict is wrapped into a one-element list
GetBadTrials(input) ==
    LET recs == IF input.is_list THEN input.recs ELSE <<input.recs[1]>>
    IN [r \in 1..Len(recs) |-> BadTrialsOf(recs[r]["dff"])]

\* the activity over time of one (trial, cell): clean, NaN at the first time
\* point, NaN throughout
TimeSeries == {<<Float(1), Float(2)>>, <<NaN, Float(1)>>, <<NaN, NaN>>}

Tensors(ntrials, ncells) ==
    {[shape |-> <<2, ntrials, ncells>>,
      a |-> [x \in (1..2) \X (1..ntrials) \X (1..ncells) |-> series[<<x[2], x[3]>>][x[1]]]]
        : series \in [(1..ntrials) \X (1..ncells) -> TimeSeries]}

Recordings(ntrials, ncells) == {[dff |-> d] : d \in Tensors(ntrials, ncells)}

InitBadTrials ==
    /\ \E ncells \in 0..MaxCells : \E nb \in 0..MaxRawTrials :
         \/ \E np \in 0..(MaxRawTrials - nb) :
              \E b \in Recordings(nb, ncells) : \E p \in Recordings(np, ncells) :
                 data = [is_list |-> TRUE, recs |-> <<b, p>>]
         \/ \E b \in Recordings(nb, ncells) : data = [is_list |-> FALSE, recs |-> <<b>>]
    /\ bad_trials = <<>>
    /\ pc = "get_bad_trials"
    /\ store = <<>> /\ f = "closed" /\ cur = NoEntity /\ warnings = <<>>
    /\ include_trials = Labels /\ include_freqs = {7000}
    /\ dff_all = <<>> /\ licks_all = <<>> /\ df = <<>>
    /\ xv_folds = 1
    /\ last_idx = 0
    /\ dff_valid = <<>> /\ dff_train = <<>>
    /\ licks_valid = <<>> /\ licks_train = <<>>
    /\ valid_indxs = <<>> /\ train_indxs = <<>>
    /\ ranges_train = <<>> /\ ranges_valid = <<>>
    /\ ds_train = NoDataset /\ ds_valid = NoDataset
    /\ last = NoResult
    /\ ExtIdle /\ SeedIdle

\* bad_trials = get_bad_trials(data)
CallGetBadTrials ==
    /\ pc = "get_bad_trials"
    /\ bad_trials' = GetBadTrials(data)
    /\ pc' = "bad_trials_done"
    /\ UNCHANGED <<extVars, data, store, f, include_trials, include_freqs, cur, warnings,
                   dff_all, licks_all, df, xv_folds, last_idx, dff_valid, dff_train,
                   licks_valid, licks_train, valid_indxs, train_indxs,
                   ranges_train, ranges_valid, dsVars>>

NextBadTrials == CallGetBadTrials

SpecBadTrials == InitBadTrials /\ [][NextBadTrials]_vars

\* ------------------------------------------------ process.py: get_good_cells
\* np.linalg.norm(dff, axis=0, ord=2) at (trial, cell); the recordings below
\* hold time series whose sum of squares is a perfect square, so the norm is
\* the exact integer root
ISqrt(n) == CHOOSE r \in 0..n : r * r = n

Norm(dff, trial, cell) ==
    IF NormSq(dff, trial, cell).nan THEN NaN
    ELSE Float(ISqrt(NormSq(dff, trial, cell).v))

\* cells_norm = norm(...).mean(0), held as the sum over the trials, that is
\* as ntrials * cells_norm: NaN when one trial's norm is NaN, and NaN (0 / 0)
\* when there is no trial
CellsNorm(dff, cell) ==
    IF dff.shape[2] = 0 \/ \E t \in 1..dff.shape[2] : Norm(dff, t, cell).nan
    THEN NaN
    ELSE Float(SumSeq([t \in 1..dff.shape[2] |-> Norm(dff, t, cell).v]))

\* np.where(np.logical_and(d['bright_cells'], ~np.isnan(cells_norm)) == 1)[0]
NonnanBrightIndxs(d) ==
    SelectSeq(Arange(d.dff.shape[3]),
              LAMBDA c : d.bright_cells[c + 1] = 1 /\ ~CellsNorm(d.dff, c + 1).nan)

\* mutant: >= instead of >
ExceedsThreshold_NotStrict(x, j, k) ==
    LET n == Len(x)
        S == SumSeq(x)
        Q == SumSeq([i \in 1..n |-> x[i] * x[i]])
        d == n * x[j] - S
    IN d >= 0 /\ d * d >= k * k * (n * Q - S * S)

\* x - x.mean() > nb_std * x.std() at position j of x, for nb_std >= 0.
\* With n = len(x), S = sum(x), Q = sum(x * x): mean = S / n and
\* std = sqrt(n * Q - S * S) / n, so the test is n * x[j] - S > nb_std *
\* sqrt(n * Q - S * S); both sides scale with x, so the sums over trials
\* stand for the means.
ExceedsThreshold(x, j, k) ==
    LET n == Len(x)
        S == SumSeq(x)
        Q == SumSeq([i \in 1..n |-> x[i] * x[i]])
        d == n * x[j] - S
    IN d > 0 /\ d * d > k * k * (n * Q - S * S)

\* np.where(x - x.mean() > nb_std * x.std())[0]: positions in x
OutlierIndxs(x, k) ==
    SelectSeq(Arange(Len(x)), LAMBDA j : ExceedsThreshold(x, j + 1, k))

\* one iteration of get_good_cells's loop: the triple appended to output
GoodCellsOf(d, k) ==
    LET cand == NonnanBrightIndxs(d)
        x == [j \in 1..Len(cand) |-> CellsNorm(d.dff, cand[j] + 1).v]
        out == OutlierIndxs(x, k)
    IN [good_cells |-> NpDelete(cand, out),
        outlier_indxs |-> out,
        nonnan_bright_indxs |-> cand]

\* get_good_cells: d['bright_cells'] raises KeyError on a recording without
\* that field, and nothing is returned
GetGoodCells(input, k) ==
    LET recs == IF input.is_list THEN input.recs ELSE <<input.recs[1]>>
    IN IF \E r \in 1..Len(recs) : "bright_cells" \notin DOMAIN recs[r]
       THEN [err |-> "KeyError", out |-> <<>>]
       ELSE [err |-> "none", out |-> [r \in 1..Len(recs) |-> GoodCellsOf(recs[r], k)]]

\* the activity over time of one (trial, cell): norm 1, norm 5, NaN
NormSeries == {<<Float(0), Float(1)>>, <<Float(3), Float(4)>>, <<NaN, Float(1)>>}

NormTensors(ntrials, ncells) ==
    {[shape |-> <<2, ntrials, ncells>>,
      a |-> [x \in (1..2) \X (1..ntrials) \X (1..ncells) |-> series[<<x[2], x[3]>>][x[1]]]]
        : series \in [(1..ntrials) \X (1..ncells) -> NormSeries]}

\* a recording with its per-cell brightness flags, or without the field
BrightRecordings(ntrials, ncells) ==
    {[dff |-> d, bright_cells |-> b] :
        d \in NormTensors(ntrials, ncells), b \in [1..ncells -> {0, 1}]}
    \cup {[dff |-> d] : d \in NormTensors(ntrials, 1)}

NbStds == {0, 1}

InitGoodCells ==
    /\ \E ncells \in 1..MaxGoodCells : \E nt \in 0..MaxGoodTrials :
         \E d \in BrightRecordings(nt, ncells) : \E l \in BOOLEAN :
            data = [is_list |-> l, recs |-> <<d>>]
    /\ nb_std \in NbStds
    /\ bad_trials = <<>>
    /\ pc = "get_good_cells"
    /\ store = <<>> /\ f = "closed" /\ cur = NoEntity /\ warnings = <<>>
    /\ include_trials = Labels /\ include_freqs = {7000}
    /\ dff_all = <<>> /\ licks_all = <<>> /\ df = <<>>
    /\ xv_folds = 1
    /\ last_idx = 0
    /\ dff_valid = <<>> /\ dff_train = <<>>
    /\ licks_valid = <<>> /\ licks_train = <<>>
    /\ valid_indxs = <<>> /\ train_indxs = <<>>
    /\ ranges_train = <<>> /\ ranges_valid = <<>>
    /\ ds_train = NoDataset /\ ds_valid = NoDataset
    /\ last = NoResult
    /\ disk = NoFile /\ h5_file = "none" /\ pkl = <<>> /\ file_i = 0 /\ calls = 0 /\ reads = 0 /\ output = <<>>
    /\ train_config = NoConfig /\ sampler = NoSampler /\ drawn = <<>>
    /\ bn_trials = None /\ bn_freqs = None /\ l2i = <<>> /\ i2l = <<>> /\ f2i = <<>> /\ i2f = <<>>
    /\ SeedIdle

\* output = get_good_cells(data, nb_std=nb_std, norm_order=2)
CallGetGoodCells ==
    /\ pc = "get_good_cells"
    /\ output' = GetGoodCells(data, nb_std)
    /\ pc' = IF output'.err = "none" THEN "good_cells_done" ELSE output'.err
    /\ UNCHANGED <<disk, h5_file, pkl, file_i, calls, reads, nb_std, samplerVars, encVars, seedVars, inputVars, dsVars,
                   last_idx, dff_valid, dff_train, licks_valid, licks_train,
                   valid_indxs, train_indxs, ranges_train, ranges_valid>>

NextGoodCells == CallGetGoodCells

SpecGoodCells == InitGoodCells /\ [][NextGoodCells]_vars


\* ------------------------------------------------- process.py: organize_data
\* A field of a raw recording: a Python int, a str (of len shape[1]) or a
\* numpy array with its shape; a 2-D array is held flat in C order, the
\* activity tensor as a function of (time, trial, cell).
IntVal(x) == [type |-> "int", shape |-> <<>>, a |-> x]
StrVal(n) == [type |-> "str", shape |-> <<n>>, a |-> <<>>]
Array1(xs) == [type |-> "array", shape |-> <<Len(xs)>>, a |-> xs]
\* an r x c array; entry (i, j) holds its own column j, so that what a
\* deletion along axis 1 removed can be read back
Array2(r, c) == [type |-> "array", shape |-> <<r, c>>, a |-> [j \in 1..(r * c) |-> (j - 1) % c]]
GroupVal == [type |-> "group", shape |-> <<>>, a |-> <<>>]

RECURSIVE Prod(_)
Prod(s) == IF s = <<>> THEN 1 ELSE Head(s) * Prod(Tail(s))
\* v.size and v.ravel()
Size(v) == Prod(v.shape)
Ravel(v) ==
    IF Len(v.shape) = 3
    THEN LET n == v.shape[2]
             nc == v.shape[3]
         IN [j \in 1..Size(v) |->
                v.a[<<((j - 1) \div (n * nc)) + 1, (((j - 1) \div nc) % n) + 1,
                      ((j - 1) % nc) + 1>>]]
    ELSE v.a

\* np.delete(v, idxs, axis=1) of a 2-D array
DeleteAxis1(v, idxs) ==
    LET r == v.shape[1]
        c == v.shape[2]
        keep == NpDelete(Arange(c), idxs)
        m == Len(keep)
    IN [type |-> "array", shape |-> <<r, m>>,
        a |-> [j \in 1..(r * m) |-> v.a[((j - 1) \div m) * c + keep[((j - 1) % m) + 1] + 1]]]

\* np.delete(dff, idxs, axis=1) of the activity tensor
DeleteTrials(dff, idxs) ==
    LET keep == NpDelete(Arange(dff.shape[2]), idxs)
    IN [type |-> "array", shape |-> <<dff.shape[1], Len(keep), dff.shape[3]>>,
        a |-> [x \in (1..dff.shape[1]) \X (1..Len(keep)) \X (1..dff.shape[3]) |->
                  dff.a[<<x[1], keep[x[2]] + 1, x[3]>>]]]

\* d with d[key] = v assigned in place (the key keeps its position)
SetKey(d, key, v) == [j \in 1..Len(d) |-> IF d[j].k = key THEN [k |-> key, v |-> v] ELSE d[j]]

\* the fields get_bad_trials and get_good_cells read from a recording
RecordOf(d) ==
    IF HasKey(d, "bright_cells")
    THEN [dff |-> Get(d, "dff"), bright_cells |-> Get(d, "bright_cells").a]
    ELSE [dff |-> Get(d, "dff")]

\* One h5py call: create_group / create_dataset of a path, or a statement
\* that raises.
Op(path, v) == [path |-> path, v |-> v, err |-> "none"]
Raise(e) == [path |-> <<>>, v |-> GroupVal, err |-> e]

\* lines 511-523: freqs = sorted(np.unique(trial_data)); freqs[0..3] index
\* the four indicator channels, so fewer than four distinct values raise
\* IndexError before any of the four is created
FreqNames == <<"target7k", "target10k", "nontarget14k", "nontarget20k">>

\* mutant: a frequency rank the channel does not have gives an all-zero
\* indicator channel instead of an exception
FreqOps_NoRaise(trials, trial_data) ==
    LET freqs == Sorted(Range(trial_data))
    IN [q \in 1..4 |->
          Op(trials \o <<FreqNames[q]>>,
             Array1([j \in 1..Len(trial_data) |->
                       IF q <= Len(freqs) /\ trial_data[j] = freqs[q] THEN 1 ELSE 0]))]

FreqOps(trials, trial_data) ==
    LET freqs == Sorted(Range(trial_data))
    IN IF Len(freqs) < 4 THEN <<Raise("IndexError")>>
       ELSE [q \in 1..4 |->
               Op(trials \o <<FreqNames[q]>>,
                  Array1([j \in 1..Len(trial_data) |->
                            IF trial_data[j] = freqs[q] THEN 1 ELSE 0]))]

\* one iteration of "for k, v in data[r].items()" (lines 504-525, 534-540).
\* np.delete without an axis works on v.ravel(): an index past its end is an
\* IndexError, and a str cannot be stored as int (ValueError).
ItemOps(meta, trials, k, v, n_trials, bad, behavior) ==
    IF v.type = "int" THEN <<Op(meta \o <<k>>, v)>>
    ELSE IF v.shape[1] = n_trials
    THEN IF v.type = "str"
         THEN <<Raise(IF \E i \in Range(bad) : i >= 1 THEN "IndexError" ELSE "ValueError")>>
         ELSE IF \E i \in Range(bad) : i >= Size(v)
         THEN <<Raise("IndexError")>>
         ELSE <<Op(trials \o <<k>>, Array1(NpDelete(Ravel(v), bad)))>>
              \o (IF behavior /\ k = "stimfrequency"
                  THEN FreqOps(trials, NpDelete(Ravel(v), bad)) ELSE <<>>)
    ELSE <<>>

ItemsOps(meta, trials, d, n_trials, bad, behavior) ==
    Flatten([j \in 1..Len(d) |-> ItemOps(meta, trials, d[j].k, d[j].v, n_trials, bad, behavior)])

\* mutant: both sub-nodes get the intersection of the two good-cell lists
GoodCellsOps_Intersection(name, out) ==
    LET both == Sorted(Range(out[1].good_cells) \cap Range(out[2].good_cells))
    IN <<Op(<<name, "behavior", "good_cells">>, Array1(both)),
         Op(<<name, "passive", "good_cells">>, Array1(both))>>

\* lines 486-489
GoodCellsOps(name, out) ==
    <<Op(<<name, "behavior", "good_cells">>, Array1(out[1].good_cells)),
      Op(<<name, "passive", "good_cells">>, Array1(out[2].good_cells))>>

\* what lines 481-485 leave behind for one raw file
Cleaned(raw, k) ==
    LET bad == GetBadTrials([is_list |-> TRUE, recs |-> <<RecordOf(raw.recs[1]), RecordOf(raw.recs[2])>>])
        b == SetKey(raw.recs[1], "dff", DeleteTrials(Get(raw.recs[1], "dff"), bad[1]))
        p == SetKey(raw.recs[2], "dff", DeleteTrials(Get(raw.recs[2], "dff"), bad[2]))
    IN [bad_trials |-> bad, data |-> <<b, p>>,
        output |-> GetGoodCells([is_list |-> TRUE, recs |-> <<RecordOf(b), RecordOf(p)>>], k)]

\* mutant: the good cells are computed after everything else is written
EntityOps_GoodCellsLast(raw, k) ==
    LET name == raw.name
        n_trials_behavior == Get(raw.recs[1], "dff").shape[2]
        n_trials_passive == Get(raw.recs[2], "dff").shape[2]
        c == Cleaned(raw, k)
        bad == c.bad_trials
        b == c.data[1]
        p == c.data[2]
    IN <<Op(<<name>>, GroupVal), Op(<<name, "behavior">>, GroupVal),
         Op(<<name, "passive">>, GroupVal)>>
       \o <<Op(<<name, "behavior", "dff">>, Get(b, "dff")),
            Op(<<name, "passive", "dff">>, Get(p, "dff"))>>
       \o (IF c.output.err # "none" THEN <<Raise(c.output.err)>>
           ELSE GoodCellsOps(name, c.output.out))

\* the h5py calls of one iteration of organize_data's loop (lines 472-540),
\* in program order; the calls after the first one that raises do not happen
EntityOps(raw, k) ==
    LET name == raw.name
        n_trials_behavior == Get(raw.recs[1], "dff").shape[2]
        n_trials_passive == Get(raw.recs[2], "dff").shape[2]
        c == Cleaned(raw, k)
        bad == c.bad_trials
        b == c.data[1]
        p == c.data[2]
    IN <<Op(<<name>>, GroupVal), Op(<<name, "behavior">>, GroupVal),
         Op(<<name, "passive">>, GroupVal)>>
       \o (IF c.output.err # "none" THEN <<Raise(c.output.err)>>
           ELSE GoodCellsOps(name, c.output.out)
                \o <<Op(<<name, "behavior", "dff">>, Get(b, "dff")),
                     Op(<<name, "behavior", "xy">>, Get(b, "xy")),
                     Op(<<name, "behavior", "firstresponse">>,
                        DeleteAxis1(Get(b, "firstresponse"), bad[1])),
                     Op(<<name, "behavior", "targetlick">>,
                        DeleteAxis1(Get(b, "targetlick"), bad[1])),
                     Op(<<name, "behavior", "nontargetlick">>,
                        DeleteAxis1(Get(b, "nontargetlick"), bad[1])),
                     Op(<<name, "behavior", "metadata">>, GroupVal),
                     Op(<<name, "behavior", "trial_info">>, GroupVal)>>
                \o ItemsOps(<<name, "behavior", "metadata">>, <<name, "behavior", "trial_info">>,
                            b, n_trials_behavior, bad[1], TRUE)
                \o <<Op(<<name, "passive", "dff">>, Get(p, "dff")),
                     Op(<<name, "passive", "xy">>, Get(p, "xy")),
                     Op(<<name, "passive", "metadata">>, GroupVal),
                     Op(<<name, "passive", "trial_info">>, GroupVal)>>
                \o ItemsOps(<<name, "passive", "metadata">>, <<name, "passive", "trial_info">>,
                            p, n_trials_passive, bad[2], FALSE))

\* a call raises by itself, or because its path already exists in the file
\* (h5py: ValueError)
Fails(ops, j) == ops[j].err # "none" \/ \E i \in 1..(j - 1) : ops[i].path = ops[j].path
FirstFailure(ops) ==
    IF \E j \in 1..Len(ops) : Fails(ops, j)
    THEN CHOOSE j \in 1..Len(ops) : Fails(ops, j) /\ \A i \in 1..(j - 1) : ~Fails(ops, i)
    ELSE 0
\* the exception of a run of calls ("none" if none) and what reached the file
ErrorOf(ops) ==
    IF FirstFailure(ops) = 0 THEN "none"
    ELSE IF ops[FirstFailure(ops)].err # "none" THEN ops[FirstFailure(ops)].err
    ELSE "ValueError"
Written(ops) ==
    LET done == IF FirstFailure(ops) = 0 THEN ops ELSE SubSeq(ops, 1, FirstFailure(ops) - 1)
    IN [j \in 1..Len(done) |-> [k |-> done[j].path, v |-> done[j].v]]

CorruptedExpts == {"ken_2016-09-30"}
Errors == {"KeyError", "IndexError", "ValueError"}

\* The raw files under data_dir.  Stimulus frequencies, lowest first.
FreqList == <<7000, 9899, 14000, 19799, 28000, 39598>>
\* the behavior stimfrequency channel of n >= 2 trials: cycling through the
\* n - 1 lowest frequencies, or the n lowest, descending
StimFrequencies(n) ==
    {[t \in 1..n |-> FreqList[((t - 1) % (n - 1)) + 1]], [t \in 1..n |-> FreqList[n + 1 - t]]}

\* the activity of a cell over the two time points of a trial, by the kind of
\* the cell: norm 1, norm 5, NaN at the first time point
Series(kind) ==
    CASE kind = "dim" -> <<Float(0), Float(1)>>
      [] kind = "big" -> <<Float(3), Float(4)>>
      [] kind = "nan" -> <<NaN, Float(1)>>

\* a tensor whose trials in bad are NaN for every cell
RawTensor(n, nc, bad, kinds) ==
    [type |-> "array", shape |-> <<2, n, nc>>,
     a |-> [x \in (1..2) \X (1..n) \X (1..nc) |->
              IF x[2] \in bad THEN NaN ELSE Series(kinds[x[3]])[x[1]]]]

\* every cell dim, the last cell big, or the first cell NaN
CellKinds(nc) ==
    {[c \in 1..nc |-> "dim"], [c \in 1..nc |-> IF c = nc THEN "big" ELSE "dim"],
     [c \in 1..nc |-> IF c = 1 THEN "nan" ELSE "dim"]}
\* bright_cells: every cell bright, the last cell not bright, or no such field
BrightCells(nc) ==
    {<<[k |-> "bright_cells", v |-> Array1([c \in 1..nc |-> 1])]>>,
     <<[k |-> "bright_cells", v |-> Array1([c \in 1..nc |-> IF c = nc THEN 0 ELSE 1])]>>,
     <<>>}

BehaviorRecs(n, nc) ==
    {<<[k |-> "name", v |-> StrVal(3)], [k |-> "date", v |-> StrVal(10)],
       [k |-> "dff", v |-> RawTensor(n, nc, bad, kinds)],
       [k |-> "xy", v |-> Array2(nc, 2)]>>
     \o bright
     \o <<[k |-> "firstresponse", v |-> Array2(2, n)],
          [k |-> "targetlick", v |-> Array2(2, n)],
          [k |-> "nontargetlick", v |-> Array2(2, n)],
          [k |-> "stimfrequency", v |-> Array1(freqs)],
          [k |-> "hit", v |-> Array1([t \in 1..n |-> t % 2])],
          [k |-> "framerate", v |-> IntVal(30)]>>
        : bad \in {{}, {n}}, kinds \in CellKinds(nc), bright \in BrightCells(nc),
          freqs \in StimFrequencies(n)}

PassiveRecs(n, nc) ==
    {<<[k |-> "name", v |-> StrVal(3)], [k |-> "date", v |-> StrVal(10)],
       [k |-> "dff", v |-> RawTensor(n, nc, {}, kinds)],
       [k |-> "xy", v |-> Array2(nc, 2)]>>
     \o bright
     \o <<[k |-> "stimfrequency", v |-> Array1([t \in 1..n |-> 7000])],
          [k |-> "framerate", v |-> IntVal(30)]>>
        : kinds \in {[c \in 1..nc |-> "dim"], [c \in 1..nc |-> IF c = 1 THEN "nan" ELSE "dim"]},
          bright \in {br \in BrightCells(nc) : br = <<>> \/ 0 \notin Range(br[1].v.a)}}

\* a behavior recording has as many trials as time points, or more
BehaviorTrials == {2, MaxOrgBehavior - 1, MaxOrgBehavior}

RawFiles ==
    UNION {{[name |-> "a", recs |-> <<b, p>>] : b \in BehaviorRecs(nb, nc), p \in PassiveRecs(np, nc)}
              : nb \in BehaviorTrials, np \in 0..MaxOrgPassive, nc \in 1..MaxOrgCells}

\* a file that organizes without error
CleanFile ==
    [name |-> "b",
     recs |-> <<CHOOSE b \in BehaviorRecs(4, 1) :
                    /\ Get(b, "dff") = RawTensor(4, 1, {}, <<"dim">>)
                    /\ HasKey(b, "bright_cells") /\ Get(b, "bright_cells").a = <<1>>
                    /\ Get(b, "stimfrequency").a = <<19799, 14000, 9899, 7000>>,
                CHOOSE p \in PassiveRecs(1, 1) :
                    /\ Get(p, "dff") = RawTensor(1, 1, {}, <<"dim">>)
                    /\ HasKey(p, "bright_cells") /\ Get(p, "bright_cells").a = <<1>> >>]

InitOrganize ==
    /\ \E raw \in RawFiles :
         pkl \in {<<raw>>, <<[raw EXCEPT !.name = "ken_2016-09-30"], CleanFile, raw>>}
    /\ nb_std \in NbStds
    /\ disk = NoFile /\ h5_file = "none" /\ file_i = 0 /\ calls = 0 /\ reads = 0
    /\ output = <<>>
    /\ data = NoData /\ bad_trials = <<>>
    /\ pc = "organize"
    /\ store = <<>> /\ f = "closed" /\ cur = NoEntity /\ warnings = <<>>
    /\ include_trials = Labels /\ include_freqs = {7000}
    /\ dff_all = <<>> /\ licks_all = <<>> /\ df = <<>>
    /\ xv_folds = 1
    /\ last_idx = 0
    /\ dff_valid = <<>> /\ dff_train = <<>>
    /\ licks_valid = <<>> /\ licks_train = <<>>
    /\ valid_indxs = <<>> /\ train_indxs = <<>>
    /\ ranges_train = <<>> /\ ranges_valid = <<>>
    /\ ds_train = NoDataset /\ ds_valid = NoDataset
    /\ last = NoResult
    /\ train_config = NoConfig /\ sampler = NoSampler /\ drawn = <<>>
    /\ bn_trials = None /\ bn_freqs = None /\ l2i = <<>> /\ i2l = <<>> /\ f2i = <<>> /\ i2f = <<>>
    /\ SeedIdle

restVars == <<store, f, include_trials, include_freqs, cur, warnings, dff_all, licks_all,
              df, xv_folds, last_idx, dff_valid, dff_train, licks_valid, licks_train,
              valid_indxs, train_indxs, ranges_train, ranges_valid, dsVars, samplerVars,
              encVars, seedVars>>

\* mutant: the store is rebuilt whether or not the file exists
OrganizeData_AlwaysRebuild ==
    /\ pc \in {"organize", "done", "skipped"} \cup Errors
    /\ calls < MaxCalls
    /\ calls' = calls + 1
    /\ disk' = [exists |-> TRUE, items |-> <<>>]
    /\ h5_file' = "open"
    /\ file_i' = 0
    /\ pc' = "loop"
    /\ UNCHANGED <<pkl, reads, output, nb_std, data, bad_trials, restVars>>

\* organize_data, lines 450-464: a call (the first, or one after an earlier
\* call returned or raised) returns at once if save_file exists, and
\* otherwise creates the file, truncating, and enters the loop
OrganizeData ==
    /\ pc \in {"organize", "done", "skipped"} \cup Errors
    /\ calls < MaxCalls
    /\ calls' = calls + 1
    /\ IF disk.exists
       THEN /\ pc' = "skipped"
            /\ UNCHANGED <<disk, h5_file, file_i>>
       ELSE /\ disk' = [exists |-> TRUE, items |-> <<>>]
            /\ h5_file' = "open"
            /\ file_i' = 0
            /\ pc' = "loop"
    /\ UNCHANGED <<pkl, reads, output, nb_std, data, bad_trials, restVars>>

\* one iteration of the loop over the raw files, lines 465-540: an exception
\* leaves the loop and the function with the file as written so far, the
\* handle never closed
ProcessFile ==
    /\ pc = "loop"
    /\ file_i < Len(pkl)
    /\ reads' = reads + 1
    /\ LET raw == pkl[file_i + 1]
           ops == EntityOps(raw, nb_std)
           c == Cleaned(raw, nb_std)
       IN IF raw.name \in CorruptedExpts
          THEN /\ file_i' = file_i + 1
               /\ UNCHANGED <<disk, pc, data, bad_trials, output>>
          ELSE /\ disk' = [disk EXCEPT !.items = @ \o Written(ops)]
               /\ data' = [is_list |-> TRUE, recs |-> c.data]
               /\ bad_trials' = c.bad_trials
               /\ output' = c.output
               /\ IF ErrorOf(ops) = "none"
                  THEN file_i' = file_i + 1 /\ pc' = pc
                  ELSE file_i' = file_i /\ pc' = ErrorOf(ops)
    /\ UNCHANGED <<h5_file, pkl, calls, nb_std, restVars>>

\* h5_file.close(), line 542
CloseFile ==
    /\ pc = "loop"
    /\ file_i = Len(pkl)
    /\ h5_file' = "closed"
    /\ pc' = "done"
    /\ UNCHANGED <<disk, pkl, file_i, calls, reads, output, nb_std, data, bad_trials, restVars>>

NextOrganize == OrganizeData \/ ProcessFile \/ CloseFile

SpecOrganize == InitOrganize /\ [][NextOrganize]_vars


\* ------------------------------------------- dataset.py: create_a1_dataset
TrainConfigs ==
    {[balanced_sampling |-> b, replacement |-> r, batch_size |-> n] :
        b \in BOOLEAN, r \in BOOLEAN, n \in 1..MaxBatch}

\* create_a1_dataset is entered: _create_ds has read one entity and is about
\* to split it
InitSampler ==
    /\ \E labs \in LabelSeqs :
        /\ dff_all = <<[k |-> EntityNames[1], v |-> Columns(EntityNames[1], Len(labs), "dff")]>>
        /\ licks_all = <<[k |-> EntityNames[1], v |-> Columns(EntityNames[1], Len(labs), "lick")]>>
        /\ df = TableOf(EntityNames[1], labs)
    /\ xv_folds \in 1..MaxFolds
    /\ train_config \in TrainConfigs
    /\ sampler = NoSampler /\ drawn = <<>>
    /\ store = <<>> /\ f = "closed" /\ cur = NoEntity /\ warnings = <<>>
    /\ data = NoData /\ bad_trials = <<>>
    /\ include_trials = Labels /\ include_freqs = {7000}
    /\ pc = "split"
    /\ last_idx = 0
    /\ dff_valid = <<>> /\ dff_train = <<>>
    /\ licks_valid = <<>> /\ licks_train = <<>>
    /\ valid_indxs = <<>> /\ train_indxs = <<>>
    /\ ranges_train = <<>> /\ ranges_valid = <<>>
    /\ ds_train = NoDataset /\ ds_valid = NoDataset
    /\ last = NoResult
    /\ disk = NoFile /\ h5_file = "none" /\ pkl = <<>> /\ file_i = 0 /\ calls = 0
    /\ reads = 0 /\ output = <<>> /\ nb_std = 1
    /\ bn_trials = None /\ bn_freqs = None /\ l2i = <<>> /\ i2l = <<>> /\ f2i = <<>> /\ i2f = <<>>
    /\ SeedIdle

\* lines 144-153
SamplerFor(cfg, ds) ==
    IF cfg.balanced_sampling
    THEN [kind |-> "WeightedRandomSampler", weights |-> ds.sample_weights,
          n |-> Len(ds.sample_weights), num_samples |-> cfg.batch_size,
          replacement |-> cfg.replacement]
    ELSE [kind |-> "RandomSampler", weights |-> <<>>, n |-> DsLen(ds.licks),
          num_samples |-> cfg.batch_size, replacement |-> TRUE]

\* create_a1_dataset after _create_ds returned
CreateSampler ==
    /\ pc = "ready"
    /\ sampler' = SamplerFor(train_config, ds_train)
    /\ pc' = "sampler"
    /\ UNCHANGED <<train_config, drawn, orgVars, encVars, seedVars, inputVars, dsVars, last_idx, dff_valid,
                   dff_train, licks_valid, licks_train, valid_indxs, train_indxs,
                   ranges_train, ranges_valid>>

\* The passes the sampler built with these arguments can make: num_samples
\* indices below n (every weight is positive), distinct when drawn without
\* replacement.
Passes(smp) ==
    {d \in [1..smp.num_samples -> 0..(smp.n - 1)] :
        smp.replacement \/ \A i, j \in 1..smp.num_samples : i # j => d[i] # d[j]}

\* one pass over the sampler; it fails when there is nothing to draw from,
\* or fewer samples than a pass without replacement asks for
Draw ==
    /\ pc = "sampler"
    /\ IF Passes(sampler) = {}
       THEN drawn' = <<>> /\ pc' = "SamplerError"
       ELSE drawn' \in Passes(sampler) /\ pc' = "drawn"
    /\ UNCHANGED <<train_config, sampler, orgVars, encVars, seedVars, inputVars, dsVars, last_idx, dff_valid,
                   dff_train, licks_valid, licks_train, valid_indxs, train_indxs,
                   ranges_train, ranges_valid>>

NextSampler == SplitEntity \/ SplitRanges \/ CreateDatasets \/ CreateSampler \/ Draw

SpecSampler == InitSampler /\ [][NextSampler]_vars


\* ------------------------------------------------- process.py: bag_of_neurons
\* The lists a caller can pass as trials / freqs: up to MaxList entries, an
\* entry may appear more than once; None asks for the default list.
TrialNames == {"hit", "miss", "correctreject"}
FreqValues == {7000, 9899}
ListsOf(S) == {[none |-> FALSE, v |-> xs] : xs \in UNION {[1..n -> S] : n \in 0..MaxList}}
DefaultTrials == <<"hit", "miss", "correctreject", "falsealarm">>
DefaultFreqs == <<7000, 9899, 14000, 19799>>

\* d[key] = v: a key the dict has keeps its position and takes the new
\* value, a new key goes to the end
Assign(d, key, v) ==
    IF HasKey(d, key) THEN SetKey(d, key, v) ELSE Append(d, [k |-> key, v |-> v])

\* a dict comprehension {k: v for ...} over the pairs in iteration order
RECURSIVE DictOf(_)
DictOf(pairs) ==
    IF pairs = <<>> THEN <<>>
    ELSE LET p == pairs[Len(pairs)]
         IN Assign(DictOf(SubSeq(pairs, 1, Len(pairs) - 1)), p.k, p.v)

\* {x: i for i, x in enumerate(xs)}
Str2Int(xs) == DictOf([j \in 1..Len(xs) |-> [k |-> xs[j], v |-> j - 1]])

\* mutant: the decoder numbers the encoder's keys by their position
Int2Str_ByPosition(d) == DictOf([j \in 1..Len(d) |-> [k |-> j - 1, v |-> d[j].k]])

\* {i: x for x, i in d.items()}
Int2Str(d) == DictOf([j \in 1..Len(d) |-> [k |-> d[j].v, v |-> d[j].k]])

InitEncoders ==
    /\ bn_trials \in {None} \cup ListsOf(TrialNames)
    /\ bn_freqs \in {None} \cup ListsOf(FreqValues)
    /\ l2i = <<>> /\ i2l = <<>> /\ f2i = <<>> /\ i2f = <<>>
    /\ pc = "bag_of_neurons"
    /\ store = <<>> /\ f = "closed" /\ cur = NoEntity /\ warnings = <<>>
    /\ data = NoData /\ bad_trials = <<>>
    /\ include_trials = Labels /\ include_freqs = {7000}
    /\ dff_all = <<>> /\ licks_all = <<>> /\ df = <<>> /\ xv_folds = 1
    /\ last_idx = 0
    /\ dff_valid = <<>> /\ dff_train = <<>>
    /\ licks_valid = <<>> /\ licks_train = <<>>
    /\ valid_indxs = <<>> /\ train_indxs = <<>>
    /\ ranges_train = <<>> /\ ranges_valid = <<>>
    /\ ds_train = NoDataset /\ ds_valid = NoDataset
    /\ last = NoResult
    /\ disk = NoFile /\ h5_file = "none" /\ pkl = <<>> /\ file_i = 0 /\ calls = 0
    /\ reads = 0 /\ output = <<>> /\ nb_std = 1
    /\ train_config = NoConfig /\ sampler = NoSampler /\ drawn = <<>>
    /\ SeedIdle

\* lines 17-24 of bag_of_neurons: the defaults and the four encoders
BuildEncoders ==
    /\ pc = "bag_of_neurons"
    /\ bn_trials' = [none |-> FALSE, v |-> IF bn_trials.none THEN DefaultTrials ELSE bn_trials.v]
    /\ bn_freqs' = [none |-> FALSE, v |-> IF bn_freqs.none THEN DefaultFreqs ELSE bn_freqs.v]
    /\ l2i' = Str2Int(bn_trials'.v)
    /\ i2l' = Int2Str(l2i')
    /\ f2i' = Str2Int(bn_freqs'.v)
    /\ i2f' = Int2Str(f2i')
    /\ pc' = "encoded"
    /\ UNCHANGED <<orgVars, samplerVars, seedVars, inputVars, dsVars, last_idx, dff_valid,
                   dff_train, licks_valid, licks_train, valid_indxs, train_indxs,
                   ranges_train, ranges_valid>>

NextEncoders == BuildEncoders

SpecEncoders == InitEncoders /\ [][NextEncoders]_vars

\* ------------------------------------------------------------------ claims
TrialsOf(cols) == {cols[j].trial : j \in 1..Len(cols)}
Returned == pc = "construct"
Ready == pc = "ready"
Indexed == pc = "ready" /\ last.ds # "none"
Partitions == {"train", "valid"}
LicksOf(which) == IF which = "train" THEN licks_train ELSE licks_valid
DffOf(which) == IF which = "train" THEN dff_train ELSE dff_valid
RangesOf(which) == IF which = "train" THEN ranges_train ELSE ranges_valid
IndxsOf(which) == IF which = "train" THEN train_indxs ELSE valid_indxs
Interval(r) == {x \in r.v[1]..(r.v[2] - 1) : TRUE}
\* the dataset the last __getitem__ was called on, and its len()
LastDs == Dataset(last.ds)
LastLen == DsLen(LastDs.licks)
ScalarInRange == Indexed /\ last.req.kind = "int" /\ 0 <= last.req.i /\ last.req.i < LastLen

\* C1: every entity the split loop has processed has disjoint validation and
\* train index subsets whose union is {0..num_samples-1}, of sizes
\* num_samples // xv_folds and num_samples - num_samples // xv_folds
\* (100 trials in 5 folds: 20 and 80).
C1_SplitPartitions ==
    /\ pc = "split" => \A j \in 1..Len(train_indxs) :
        LET num_samples == Len(dff_all[j].v)
            V == TrialsOf(dff_valid[j].v)
            T == TrialsOf(dff_train[j].v)
        IN /\ dff_valid[j].k = dff_all[j].k /\ dff_train[j].k = dff_all[j].k
           /\ V \cap T = {}
           /\ V \cup T = 0..(num_samples - 1)
           /\ Cardinality(V) = num_samples \div xv_folds
           /\ Len(dff_valid[j].v) = num_samples \div xv_folds
           /\ Len(valid_indxs[j].v) = num_samples \div xv_folds
           /\ Cardinality(T) = num_samples - (num_samples \div xv_folds)
           /\ Len(dff_train[j].v) = num_samples - (num_samples \div xv_folds)
           /\ Len(train_indxs[j].v) = num_samples - (num_samples \div xv_folds)
           /\ TrialsOf(licks_valid[j].v) = V /\ TrialsOf(licks_train[j].v) = T
    /\ (Returned /\ Len(dff_all) = 1 =>
          /\ ValidSize(100, 5) = 20
          /\ Len(TrainIdx(100, [j \in 1..20 |-> 5 * (j - 1)])) = 80)

C1_Witness ==
    /\ pc = "split"
    /\ \E j \in 1..Len(train_indxs) :
        /\ Len(dff_all[j].v) = 3
        /\ Len(dff_valid[j].v) = 1
        /\ Len(dff_train[j].v) = 2
        /\ dff_valid[j].v[1].trial = 1

\* C2: in each partition the range map's intervals, in entity order, start
\* at 0, are contiguous and gapless, do not overlap, and their lengths sum to
\* the partition's sample count, which is what __len__ returns.
C2_RangeMapContiguous ==
    /\ Returned => \A which \in Partitions :
        LET ranges == RangesOf(which)
            total == DsLen(LicksOf(which))
        IN /\ Len(ranges) = Len(dff_all)
           /\ ranges[1].v[1] = 0
           /\ \A j \in 1..Len(ranges) : ranges[j].v[1] <= ranges[j].v[2]
           /\ \A j \in 1..(Len(ranges) - 1) : ranges[j + 1].v[1] = ranges[j].v[2]
           /\ \A j, m \in 1..Len(ranges) :
                j # m => Interval(ranges[j]) \cap Interval(ranges[m]) = {}
           /\ SumSeq([j \in 1..Len(ranges) |-> ranges[j].v[2] - ranges[j].v[1]]) = total
    /\ Ready => \A which \in Partitions :
        /\ Dataset(which).ranges = RangesOf(which)
        /\ DsLen(Dataset(which).licks)
             = RangesOf(which)[Len(RangesOf(which))].v[2]

C2_Witness ==
    /\ Ready
    /\ Len(ranges_train) = 2
    /\ ranges_train[1].v[2] > 0
    /\ ranges_train[2].v[2] > ranges_train[2].v[1]
    /\ DsLen(ds_train.licks) = ranges_train[2].v[2]

\* C3: for every integer i in [0, len(dataset)), _generate_idxs(i) yields
\* exactly one (entity, local_index) pair: the entity whose interval [a, b)
\* contains i, local_index = i - a, below the entity's subset size.
C3_ResolveScalar ==
    ScalarInRange =>
        /\ last.err = "none"
        /\ Len(last.pairs) = 1
        /\ HasKey(LastDs.ranges, last.pairs[1].k)
        /\ LET r == Get(LastDs.ranges, last.pairs[1].k)
           IN /\ r[1] <= last.req.i /\ last.req.i < r[2]
              /\ last.pairs[1].i = last.req.i - r[1]
        /\ last.pairs[1].i >= 0
        /\ last.pairs[1].i < Len(Get(LastDs.licks, last.pairs[1].k))
        /\ last.pairs[1].i < Len(Get(LastDs.dff, last.pairs[1].k))
        /\ Len(last.data) = 1

C3_Witness ==
    /\ ScalarInRange
    /\ Len(last.pairs) = 1
    /\ Get(RangesOf(last.ds), last.pairs[1].k)[1] > 0
    /\ last.req.i > Get(RangesOf(last.ds), last.pairs[1].k)[1]

\* C4: the range-map entry of an entity is [running_total, running_total +
\* subset_size), running_total being the sum of that partition's subset
\* sizes of the entities before it (A: 50 trials, B: 30 trials, 5 folds:
\* train {A: [0,40), B: [40,64)}, validation {A: [0,10), B: [10,16)}).
C4_RangeMapEntries ==
    /\ Returned => \A which \in Partitions : \A j \in 1..Len(dff_all) :
        LET running_total == SumSeq([m \in 1..(j - 1) |-> Len(DffOf(which)[m].v)])
        IN RangesOf(which)[j] =
              [k |-> dff_all[j].k,
               v |-> <<running_total, running_total + Len(DffOf(which)[j].v)>>]
    /\ (Returned /\ Len(dff_all) = 1 =>
          LET validA == [j \in 1..ValidSize(50, 5) |-> 5 * (j - 1)]
              validB == [j \in 1..ValidSize(30, 5) |-> 5 * (j - 1)]
              trainA == TrainIdx(50, validA)
              trainB == TrainIdx(30, validB)
          IN /\ BuildRanges(<<[k |-> "A", v |-> GlobalIdx(trainA, 0)],
                              [k |-> "B", v |-> GlobalIdx(trainB, 50)]>>)
                  = <<[k |-> "A", v |-> <<0, 40>>], [k |-> "B", v |-> <<40, 64>>]>>
             /\ BuildRanges(<<[k |-> "A", v |-> GlobalIdx(validA, 0)],
                              [k |-> "B", v |-> GlobalIdx(validB, 50)]>>)
                  = <<[k |-> "A", v |-> <<0, 10>>], [k |-> "B", v |-> <<10, 16>>]>>)

C4_Witness ==
    /\ Returned
    /\ Len(dff_all) = 2
    /\ ranges_train[2].v[1] > 0
    /\ ranges_valid[2].v[1] > 0
    /\ ranges_train[2].v[1] # ranges_valid[2].v[1]
    /\ ranges_valid[2].v[2] > ranges_valid[2].v[1]

\* C5: indexing by a value that is not an int, a list, a range or a slice
\* fails with RuntimeError "invalid indexing encountered" and returns no
\* sample.
C5_InvalidIndexType ==
    Indexed /\ last.req.kind \notin {"int", "list", "range", "slice"} =>
        /\ last.err = "RuntimeError: invalid indexing encountered"
        /\ last.pairs = <<>>
        /\ last.data = <<>>

C5_Witness ==
    /\ Indexed
    /\ last.req.kind = "other"
    /\ last.req.type = "str"
    /\ last.err = "RuntimeError: invalid indexing encountered"
    /\ LastLen > 0

\* C6: every index request either raises or returns exactly one sample per
\* requested index, in request order, also when a requested index lies
\* outside [0, len(dataset)).
C6_NoSilentWrongShape ==
    Indexed /\ last.err = "none" =>
        LET idxs == Idxs(last.req, LastLen)
        IN /\ Len(last.data) = Len(idxs)
           /\ \A j \in 1..Len(idxs) :
                GetItem(LastDs, IntReq(idxs[j])).data = <<last.data[j]>>

\* C7: sample_weights[g] is 1 / (number of rows of the instance's own label
\* table carrying the label of sample g); {hit: 80, miss: 20} gives 1/80 and
\* 1/20; train and validation weights come from their own tables.
C7_SampleWeights ==
    /\ Ready => \A which \in Partitions :
        /\ Len(Dataset(which).sample_weights) = DsLen(Dataset(which).licks)
        /\ Dataset(which).df = ILoc(df, Flatten(Values(IndxsOf(which))))
    /\ ScalarInRange /\ last.err = "none" =>
        LastDs.sample_weights[last.req.i + 1]
            = <<1, CountLabel(LastDs.df, last.data[1].label)>>
    /\ (Returned /\ Len(dff_all) = 1 =>
          LET table == [p \in 1..100 |->
                          [name |-> "a", label |-> IF p % 5 = 0 THEN "miss" ELSE "hit",
                           freq |-> 7000, trial |-> p - 1]]
              w == ComputeSampleWeights(100, table)
          IN \A p \in 1..100 :
                w[p] = IF table[p].label = "hit" THEN <<1, 80>> ELSE <<1, 20>>)

C7_Witness ==
    /\ ScalarInRange
    /\ last.ds = "train"
    /\ last.data[1].label = "miss"
    /\ ds_train.sample_weights[last.req.i + 1] = <<1, 1>>
    /\ \E p \in 1..Len(ds_train.sample_weights) : ds_train.sample_weights[p] = <<1, 3>>
    /\ CountLabel(ds_valid.df, "miss") = 1
    /\ CountLabel(df, "miss") = 2

\* the entity the last loop iteration of _create_ds read, as it is in the store
Loaded == cur.name # "none"
CurGroup == Get(store, cur.name)
\* some label channel (name without 'target') of behavior trial t (1-based) is 1
HasIndicator(t) ==
    \E c \in 1..Len(CurGroup.behavior.trial_info) :
        LET ch == CurGroup.behavior.trial_info[c]
        IN ch.k \notin {"target", "nontarget", "target7k"} /\ ch.v[t] = 1

\* C8: every trial of an entity (behavior trials, then passive trials) gets
\* exactly one label; a behavior trial with no matching indicator channel is
\* "_null_" (a warning is printed, the entity is still processed); every
\* passive trial is "passive" whatever its indicator channels hold.
C8_OneLabelPerTrial ==
    Loaded =>
        /\ Len(cur.trial_labels) = cur.ntrials_b + cur.ntrials_p
        /\ cur.ntrials_b = Len(CurGroup.behavior.dff)
        /\ cur.ntrials_p = Len(CurGroup.passive.dff)
        /\ \A t \in 1..cur.ntrials_b :
              /\ cur.trial_labels[t] \in {"_null_", "hit", "miss", "stimfrequency"}
              /\ (~HasIndicator(t) => cur.trial_labels[t] = "_null_")
              /\ (HasIndicator(t) => cur.trial_labels[t] # "_null_")
        /\ \A t \in (cur.ntrials_b + 1)..(cur.ntrials_b + cur.ntrials_p) :
              cur.trial_labels[t] = "passive"
        /\ ("_null_" \in Range(cur.trial_labels) =>
              /\ cur.name \in Range(warnings)
              /\ pc # "AssertionError"
              /\ HasKey(dff_all, cur.name))
        /\ (cur.name \in Range(warnings) => "_null_" \in Range(cur.trial_labels))

C8_Witness ==
    /\ Loaded
    /\ cur.ntrials_b = 2 /\ cur.ntrials_p = 1
    /\ cur.trial_labels = <<"hit", "_null_", "passive">>
    /\ Get(CurGroup.passive.trial_info, "hit") = <<1>>
    /\ Get(CurGroup.behavior.trial_info, "target") = <<1, 1>>
    /\ warnings = <<cur.name>>

\* C9: a trial is retained iff its label is in include_trials and its
\* frequency is in include_freqs; the same ascending index set filters the
\* labels, the frequencies, the activity trial axis and the lick trial axis,
\* so all four keep the same count and position k is the same trial in each.
C9_FilterAligned ==
    Loaded =>
        LET kept == cur.include_indxs
            rows == RowsOf(df, cur.name)
            dff == Get(dff_all, cur.name)
            licks == Get(licks_all, cur.name)
        IN /\ Range(kept) = {i \in 0..(Len(cur.trial_labels) - 1) :
                                /\ cur.trial_labels[i + 1] \in include_trials
                                /\ cur.stim_freqs[i + 1] \in include_freqs}
           /\ \A j \in 1..(Len(kept) - 1) : kept[j] < kept[j + 1]
           /\ Len(rows) = Len(kept) /\ Len(dff) = Len(kept) /\ Len(licks) = Len(kept)
           /\ \A j \in 1..Len(kept) :
                /\ rows[j].label = cur.trial_labels[kept[j] + 1]
                /\ rows[j].freq = cur.stim_freqs[kept[j] + 1]
                /\ dff[j] = cur.dff[kept[j] + 1]
                /\ licks[j] = cur.licks[kept[j] + 1]
                /\ dff[j].trial = kept[j]
                /\ licks[j].trial = kept[j]
                /\ rows[j].trial = kept[j]

C9_Witness ==
    /\ Loaded
    /\ Len(cur.trial_labels) = 3
    /\ cur.include_indxs = <<0, 2>>
    /\ cur.trial_labels[2] \in include_trials
    /\ cur.stim_freqs[2] \notin include_freqs
    /\ Len(dff_all) = 2
    /\ Len(dff_all[1].v) = 0

\* C10: a trial of a recording is marked bad iff for every cell the norm over
\* time of that trial's activity is NaN; one cell with a non-NaN norm keeps
\* the trial; each recording of the list is judged on its own tensor.
C10_BadTrials ==
    pc = "bad_trials_done" =>
        /\ Len(bad_trials) = Len(data.recs)
        /\ \A r \in 1..Len(bad_trials) :
             LET dff == data.recs[r].dff
                 ntrials == dff.shape[2]
                 ncells == dff.shape[3]
                 AllNan(i) == \A c \in 1..ncells : NormSq(dff, i + 1, c).nan
             IN /\ Range(bad_trials[r]) = {i \in 0..(ntrials - 1) : AllNan(i)}
                /\ \A i \in 0..(ntrials - 1) :
                      (\E c \in 1..ncells : ~NormSq(dff, i + 1, c).nan)
                          => i \notin Range(bad_trials[r])
                /\ \A j \in 1..(Len(bad_trials[r]) - 1) :
                      bad_trials[r][j] < bad_trials[r][j + 1]

C10_Witness ==
    /\ pc = "bad_trials_done"
    /\ data.is_list
    /\ bad_trials = <<<<0>>, <<>>>>
    /\ data.recs[2].dff.shape = <<2, 1, 2>>
    /\ NormSq(data.recs[2].dff, 1, 1).nan
    /\ NormSq(data.recs[2].dff, 1, 2) = Float(5)
    /\ data.recs[1].dff.a[<<2, 1, 1>>] = Float(1)

\* ---------------------------------------------------- claims: get_good_cells
GoodCellsDone == pc = "good_cells_done"
Triples == IF GoodCellsDone THEN Range(output.out) ELSE {}
Recording == data.recs[1]
\* ntrials * cells_norm of a candidate cell
CandNorm(c) == CellsNorm(Recording.dff, c + 1).v
CandNorms(t) == [j \in 1..Len(t.nonnan_bright_indxs) |-> CandNorm(t.nonnan_bright_indxs[j])]
\* the candidate cells that are outliers, as cell indices
OutlierCells(t) == {t.nonnan_bright_indxs[p + 1] : p \in Range(t.outlier_indxs)}

\* C12: for every recording, the triple (good_cells, outlier_cells,
\* candidate_cells) get_good_cells returns has |good_cells| =
\* |candidate_cells| - |outlier_cells| and good_cells disjoint from
\* outlier_cells.
C12_GoodOutlierDisjoint ==
    \A t \in Triples :
        /\ Len(t.good_cells) = Len(t.nonnan_bright_indxs) - Len(t.outlier_indxs)
        /\ Range(t.good_cells) \cap Range(t.outlier_indxs) = {}

\* C13: the candidates are exactly the bright cells whose trial-averaged norm
\* is not NaN; a candidate is an outlier exactly when its norm strictly
\* exceeds mean + nb_std * std of the candidate norms; the good cells are
\* exactly the candidates that are not outliers, as cell indices.
C13_GoodCells ==
    \A t \in Triples :
        LET ncells == Recording.dff.shape[3]
            cand == Range(t.nonnan_bright_indxs)
            x == CandNorms(t)
            n == Len(x)
            S == SumSeq(x)
            Q == SumSeq([i \in 1..n |-> x[i] * x[i]])
        IN /\ cand = {c \in 0..(ncells - 1) :
                         /\ Recording.bright_cells[c + 1] = 1
                         /\ \A tr \in 1..Recording.dff.shape[2] :
                               \A tm \in 1..Recording.dff.shape[1] :
                                  ~Recording.dff.a[<<tm, tr, c + 1>>].nan
                         /\ Recording.dff.shape[2] > 0}
           /\ t.nonnan_bright_indxs = Sorted(cand)
           /\ \A j \in 1..n :
                 (j - 1) \in Range(t.outlier_indxs)
                    <=> /\ n * x[j] > S
                        /\ (n * x[j] - S) * (n * x[j] - S) > nb_std * nb_std * (n * Q - S * S)
           /\ t.good_cells = Sorted(cand \ OutlierCells(t))

\* a candidate is an outlier and another candidate is good
C13_Witness ==
    /\ GoodCellsDone
    /\ nb_std = 1
    /\ \E t \in Triples : t.outlier_indxs # <<>> /\ Len(t.good_cells) >= 2

\* ----------------------------------------------------- claims: organize_data
Persisted(path) == HasKey(disk.items, path)
ItemAt(path) == Get(disk.items, path)
EntitiesWritten == {disk.items[j].k[1] : j \in 1..Len(disk.items)}
SubNodes == {"behavior", "passive"}
\* the channels persisted in the trial_info group of a sub-node
TrialInfoOf(n, rec) ==
    {j \in 1..Len(disk.items) :
        /\ Len(disk.items[j].k) = 4
        /\ SubSeq(disk.items[j].k, 1, 3) = <<n, rec, "trial_info">>}
\* the raw file of an entity, and whether a recording of it lacks bright_cells
FilesOf(n) == {j \in 1..Len(pkl) : pkl[j].name = n}
LacksBright(j) == \E r \in 1..2 : ~HasKey(pkl[j].recs[r], "bright_cells")

\* C11: for every entity written by organize_data, the trial-axis length of
\* the persisted activity tensor equals the length of every channel of that
\* recording's trial_info group and the trial-axis length of firstresponse,
\* targetlick and nontargetlick, whatever the lengths of the other raw fields.
C11_TrialAxisAligned ==
    pc = "done" =>
        \A n \in EntitiesWritten : \A rec \in SubNodes :
            LET ntrials == ItemAt(<<n, rec, "dff">>).shape[2]
            IN /\ \A j \in TrialInfoOf(n, rec) : disk.items[j].v.shape[1] = ntrials
               /\ rec = "behavior" =>
                     \A k \in {"firstresponse", "targetlick", "nontargetlick"} :
                         ItemAt(<<n, rec, k>>).shape[2] = ntrials

\* C14: if the store file exists when organize_data is called, the call
\* reads no raw file and does not open, modify or truncate the store, so a
\* second call leaves the store as the first call left it.
C14_SkipWhenStoreExists ==
    [][(calls' = calls + 1 /\ disk.exists)
          => (pc' = "skipped" /\ disk' = disk /\ reads' = reads /\ h5_file' = h5_file)]_vars

\* a second call found the store a complete first call wrote
C14_Witness ==
    /\ pc = "skipped" /\ calls = 2
    /\ h5_file = "closed"
    /\ \E n \in EntitiesWritten : Persisted(<<n, "passive", "trial_info">>)

\* C15: a failure of organize_data leaves no partially written store, and a
\* later call does not take the 'file found' path on an incomplete store.
C15_NoSkipOnPartialStore ==
    /\ pc \in Errors => ~disk.exists
    /\ pc = "skipped" => file_i = Len(pkl) /\ h5_file = "closed"

\* C16: if a recording of an entity has no bright_cells field, get_good_cells
\* fails and organize_data persists no good_cells and no dff dataset for
\* that entity.
C16_NoBrightCellsIsFatal ==
    \A j \in 1..Len(pkl) :
        (LacksBright(j) /\ pkl[j].name \notin CorruptedExpts) =>
            /\ \A rec \in SubNodes : \A k \in {"good_cells", "dff"} :
                   ~Persisted(<<pkl[j].name, rec, k>>)
            /\ reads >= j => (output.err = "KeyError" /\ pc \in {"KeyError", "skipped"})

\* the entity's groups were created, then get_good_cells raised
C16_Witness ==
    /\ pc = "KeyError"
    /\ \E j \in 1..Len(pkl) :
          /\ LacksBright(j)
          /\ Persisted(<<pkl[j].name, "passive">>)
          /\ ~Persisted(<<pkl[j].name, "behavior", "good_cells">>)
          /\ j = 3 /\ Persisted(<<pkl[2].name, "passive", "dff">>)

\* C17: where the behavior stimfrequency channel is persisted, the four
\* indicator channels target7k, target10k, nontarget14k, nontarget20k are
\* persisted too; channel q is 1 exactly on the trials whose frequency is the
\* q-th smallest distinct value, and every trial is marked in exactly one.
C17_FourIndicatorChannels ==
    \A n \in EntitiesWritten :
        Persisted(<<n, "behavior", "trial_info", "stimfrequency">>) =>
            LET sf == ItemAt(<<n, "behavior", "trial_info", "stimfrequency">>).a
                freqs == Sorted(Range(sf))
                chan(q) == ItemAt(<<n, "behavior", "trial_info", FreqNames[q]>>).a
            IN /\ \A q \in 1..4 : Persisted(<<n, "behavior", "trial_info", FreqNames[q]>>)
               /\ \A q \in 1..4 : \A t \in 1..Len(sf) :
                     (chan(q)[t] = 1) <=> (q <= Len(freqs) /\ sf[t] = freqs[q])
               /\ \A t \in 1..Len(sf) : Cardinality({q \in 1..4 : chan(q)[t] = 1}) = 1

\* the cells of a persisted recording
CellsOf(n, rec) == 0..(ItemAt(<<n, rec, "dff">>).shape[3] - 1)
BothGoodCells(n) ==
    Persisted(<<n, "behavior", "good_cells">>) /\ Persisted(<<n, "passive", "good_cells">>)

\* the entity output, data and bad_trials belong to: the file read last
OutputEntity == IF reads >= 1 THEN pkl[reads].name ELSE "none"

C19_SamplerWithReplacement ==
    /\ pc \in {"sampler", "drawn", "SamplerError"} =>
          /\ sampler.kind = IF train_config.balanced_sampling
                            THEN "WeightedRandomSampler" ELSE "RandomSampler"
          /\ train_config.balanced_sampling => sampler.weights = ds_train.sample_weights
          /\ sampler.num_samples = train_config.batch_size
          /\ sampler.replacement
    /\ (pc = "SamplerError" => sampler.n = 0)
    /\ (pc = "drawn" => Len(drawn) = train_config.batch_size)

\* ------------------------------------------------- claims: read-only indexing
\* C20: A1Dataset indexing is read-only: across every __getitem__ call,
\* raising or not, and the return from it, the activity tensors, lick
\* tensors, range map, label table and sample_weights of both datasets keep
\* their values from construction, and sample_weights is assigned only by
\* the constructor.
C20_IndexingReadOnly ==
    [][/\ pc = "ready" => (ds_train' = ds_train /\ ds_valid' = ds_valid)
       /\ (ds_train'.sample_weights # ds_train.sample_weights
              \/ ds_valid'.sample_weights # ds_valid.sample_weights)
            => (pc = "construct" /\ pc' = "ready")]_vars

\* a call on the training set returned samples of two entities
C20_Witness ==
    /\ Indexed
    /\ last.ds = "train"
    /\ last.err = "none"
    /\ \E i, j \in 1..Len(last.pairs) : last.pairs[i].k # last.pairs[j].k
    /\ ds_train.sample_weights # <<>>

\* ---------------------------------------------------- claims: bag_of_neurons
\* the encoder / decoder pair sends every entry of the list back to itself
RoundTrips(xs, enc, dec) ==
    \A j \in 1..Len(xs) :
        /\ HasKey(enc, xs[j])
        /\ HasKey(dec, Get(enc, xs[j]))
        /\ Get(dec, Get(enc, xs[j])) = xs[j]

\* C21: once bag_of_neurons has built its encoders, int2str[str2int[x]] == x
\* for every label x of the trials list and for every frequency x of the
\* freqs list, whether or not the list repeats an entry.
C21_EncoderRoundTrip ==
    pc = "encoded" => RoundTrips(bn_trials.v, l2i, i2l) /\ RoundTrips(bn_freqs.v, f2i, i2f)

\* the encoders were built from a trials list that repeats a label
C21_Witness ==
    /\ pc = "encoded"
    /\ Len(bn_trials.v) = 3 /\ bn_trials.v[1] = bn_trials.v[3] /\ bn_trials.v[1] # bn_trials.v[2]
    /\ Len(l2i) = 2 /\ Get(l2i, bn_trials.v[1]) = 2
    /\ Len(bn_freqs.v) >= 2

\* ------------------------------------------------- claims: _create_ds labels
\* the positions, in the iteration order of the behavior trial_info group, of
\* the channels without 'target' in their name that are 1 on behavior trial t
LabelChannels(t) ==
    {c \in 1..Len(CurGroup.behavior.trial_info) :
        LET ch == CurGroup.behavior.trial_info[c]
        IN ch.k \notin {"target", "nontarget", "target7k"} /\ ch.v[t] = 1}
Last(S) == CHOOSE c \in S : \A d \in S : d <= c

\* C22: a behavior trial on which one or more channels without 'target' in
\* their name equal 1 is labelled with the name of the last of them in the
\* iteration order of trial_info; no trial is ever labelled with the name of
\* a channel that contains 'target'.
C22_LastIndicatorWins ==
    Loaded =>
        /\ \A t \in 1..cur.ntrials_b :
              LabelChannels(t) # {} =>
                  cur.trial_labels[t] = CurGroup.behavior.trial_info[Last(LabelChannels(t))].k
        /\ \A t \in 1..Len(cur.trial_labels) :
              cur.trial_labels[t] \notin {"target", "nontarget", "target7k"}

\* a loaded entity has a trial on which hit, miss and target are all 1
C22_Witness ==
    /\ Loaded
    /\ \E t \in 1..cur.ntrials_b :
          /\ Cardinality(LabelChannels(t)) >= 2
          /\ Get(CurGroup.behavior.trial_info, "target")[t] = 1
          /\ cur.trial_labels[t] = "miss"

\* -------------------------------------------------- claims: _create_ds licks
\* channel ch of behavior trial t (1-based) of the entity just read
Indicator(ch, t) == Get(CurGroup.behavior.trial_info, ch)[t]

\* C25: before filtering, the lick column of a behavior trial is that trial's
\* nontargetlick column where nontarget == 1, else its targetlick column where
\* target == 1, else zeros; the columns of the passive trials follow those of
\* the behavior trials and are all zeros.
C25_LickSignal ==
    Loaded =>
        /\ Len(cur.licks) = cur.ntrials_b + cur.ntrials_p
        /\ \A t \in 1..cur.ntrials_b :
              cur.licks[t] =
                  IF Indicator("nontarget", t) = 1
                  THEN [trial |-> t - 1, of |-> "nontargetlick"]
                  ELSE IF Indicator("target", t) = 1
                       THEN [trial |-> t - 1, of |-> "targetlick"]
                       ELSE [trial |-> t - 1, of |-> "zeros"]
        /\ \A t \in (cur.ntrials_b + 1)..(cur.ntrials_b + cur.ntrials_p) :
              cur.licks[t] = [trial |-> t - 1, of |-> "zeros"]

\* a loaded entity has a trial with target and nontarget both 1, a trial
\* with neither, and a passive trial
C25_Witness ==
    /\ Loaded
    /\ cur.ntrials_p >= 1
    /\ \E t, u \in 1..cur.ntrials_b :
          /\ Indicator("target", t) = 1 /\ Indicator("nontarget", t) = 1
          /\ cur.licks[t].of = "nontargetlick"
          /\ Indicator("target", u) = 0 /\ Indicator("nontarget", u) = 0
          /\ cur.licks[u].of = "zeros"

\* ----------------------------------------- claims: _train_valid_split indices
\* the trials the entities before position e of dff_all had before the split
TrialsBefore(e) == SumSeq([m \in 1..(e - 1) |-> Len(dff_all[m].v)])
\* the local (pre-split) trial indices of the columns of a subset
LocalIdx(cols) == [j \in 1..Len(cols) |-> cols[j].trial]
FlatLen(which) == DsLen(LicksOf(which))

\* C23: the global indices of the train and of the validation subset of every
\* entity the split has processed are the local indices of the subset's
\* trials plus the number of trials all earlier entities had before the
\* split, and during the loop over the entities the running counter is the
\* number of trials all processed entities had before the split.
C23_GlobalIndexOffset ==
    /\ pc = "split" => last_idx = TrialsBefore(Len(train_indxs) + 1)
    /\ \A which \in Partitions : \A e \in 1..Len(IndxsOf(which)) :
          IndxsOf(which)[e].v
              = [j \in 1..Len(DffOf(which)[e].v) |->
                    LocalIdx(DffOf(which)[e].v)[j] + TrialsBefore(e)]

\* after the split of two entities a global index of the second one is not
\* below the flat length of its partition
C23_Witness ==
    /\ pc = "construct"
    /\ Len(train_indxs) = 2
    /\ \E which \in Partitions : \E j \in 1..Len(IndxsOf(which)[2].v) :
          IndxsOf(which)[2].v[j] >= FlatLen(which)

\* ------------------------------------------------ claims: sample alignment
Ascending(xs) == \A i, j \in 1..Len(xs) : i < j => xs[i] < xs[j]

\* C24: for every index g in [0, len) of the train or the validation dataset,
\* ds[g] returns the label-table row, the activity slice and the lick column
\* of one and the same trial of one and the same entity; the subsets of every
\* entity keep the ascending order of the original trials, and the rows of
\* the partition's label table that carry an entity's name are the rows of
\* the trials of its subset, in the same order.
C24_SampleAligned ==
    /\ ScalarInRange =>
          /\ last.err = "none" /\ Len(last.data) = 1
          /\ LET s == last.data[1]
             IN /\ s.row.name = s.name /\ s.dff.name = s.name /\ s.lick.name = s.name
                /\ s.row.trial = s.dff.trial /\ s.lick.trial = s.dff.trial
                /\ s.label = s.row.label
                /\ s.row \in Range(df)
    /\ \A which \in Partitions : \A e \in 1..Len(DffOf(which)) :
          /\ Ascending(LocalIdx(DffOf(which)[e].v))
          /\ LocalIdx(LicksOf(which)[e].v) = LocalIdx(DffOf(which)[e].v)
    /\ Ready =>
          \A which \in Partitions : \A e \in 1..Len(DffOf(which)) :
              LocalIdx(RowsOf(Dataset(which).df, DffOf(which)[e].k))
                  = LocalIdx(DffOf(which)[e].v)

\* an index of the second entity is read from a dataset of two entities
\* whose first entity lost a trial to the other partition
C24_Witness ==
    /\ ScalarInRange /\ last.err = "none"
    /\ Len(dff_all) = 2
    /\ last.data[1].name = dff_all[2].k
    /\ last.data[1].row.trial >= 1
    /\ Len(Get(DffOf(last.ds), dff_all[1].k)) \in 1..(Len(dff_all[1].v) - 1)

\* -------------------------------------------------- claims: sample weights
\* the sum of a sequence of fractions <<numerator, denominator>>, unreduced
RECURSIVE SumRat(_)
SumRat(ws) ==
    IF ws = <<>> THEN <<0, 1>>
    ELSE LET r == SumRat(Tail(ws))
             w == Head(ws)
         IN <<w[1] * r[2] + r[1] * w[2], w[2] * r[2]>>
LabelsOf(table) == {table[p].label : p \in 1..Len(table)}
\* the weights of the samples of a dataset that carry the label
WeightsOf(ds, lbl) ==
    LET at == SelectSeq(Arange(Len(ds.sample_weights)),
                        LAMBDA p : p < Len(ds.df) /\ ds.df[p + 1].label = lbl)
    IN Take(ds.sample_weights, at)

EmptySubset(which, e) == DffOf(which)[e].v = <<>> /\ LicksOf(which)[e].v = <<>>
EmptyInterval(which, e) == RangesOf(which)[e].v[1] = RangesOf(which)[e].v[2]
\* the entities whose interval [a, b) holds g
Holders(which, g) ==
    {e \in 1..Len(RangesOf(which)) : RangesOf(which)[e].v[1] <= g /\ g < RangesOf(which)[e].v[2]}

\* C30: an entity with fewer trials than xv_folds has an empty validation
\* subset, an empty interval in the validation range map, and all its trials
\* in the train subset; with xv_folds = 1 every entity has an empty train
\* subset and an empty train interval. The range maps stay contiguous from 0
\* and every index in [0, len) of a partition lies in the interval of exactly
\* one entity, which is the one __getitem__ reads.
C30_DegenerateFolds ==
    /\ \A e \in 1..Len(dff_valid) :
          /\ Len(dff_all[e].v) < xv_folds =>
                /\ EmptySubset("valid", e)
                /\ LocalIdx(dff_train[e].v) = Arange(Len(dff_all[e].v))
                /\ pc \in {"construct", "ready"} => EmptyInterval("valid", e)
          /\ xv_folds = 1 =>
                /\ EmptySubset("train", e)
                /\ pc \in {"construct", "ready"} => EmptyInterval("train", e)
    /\ pc \in {"construct", "ready"} =>
          \A which \in Partitions :
              /\ \A e \in 1..Len(RangesOf(which)) :
                    RangesOf(which)[e].v[1] = IF e = 1 THEN 0 ELSE RangesOf(which)[e - 1].v[2]
              /\ \A g \in 0..(FlatLen(which) - 1) : Cardinality(Holders(which, g)) = 1
    /\ ScalarInRange =>
          /\ Len(last.pairs) = 1
          /\ \E e \in Holders(last.ds, last.req.i) :
                /\ Holders(last.ds, last.req.i) = {e}
                /\ last.pairs[1].k = RangesOf(last.ds)[e].k

\* with two folds the first entity has one trial and so an empty validation
\* interval, and an index of the validation dataset resolves to the second
\* entity
C30_Witness ==
    /\ ScalarInRange /\ last.ds = "valid" /\ last.err = "none"
    /\ xv_folds = 2
    /\ Len(dff_all) = 2 /\ Len(dff_all[1].v) = 1
    /\ EmptyInterval("valid", 1) /\ Len(dff_train[1].v) = 1
    /\ last.pairs[1].k = dff_all[2].k

\* -------------------------------------- claims: organize_data frequency count
\* the persisted behavior stimfrequency channel of an entity, its distinct
\* values in ascending order, and a persisted indicator channel
StimFreq(n) == ItemAt(<<n, "behavior", "trial_info", "stimfrequency">>).a
Distinct(n) == Sorted(Range(StimFreq(n)))
Indicators(n, q) == ItemAt(<<n, "behavior", "trial_info", FreqNames[q]>>).a
\* the loop went past the entity's raw file without an exception
Succeeded(n) == \E j \in 1..file_i : pkl[j].name = n /\ n \notin CorruptedExpts

\* C29: an entity organize_data got through has its behavior stimfrequency
\* channel persisted with four or more distinct values. Where the persisted
\* channel has fewer than four, the call failed with IndexError on that
\* entity with none of the four indicator channels and nothing of the
\* passive recording written. Where it has four or more, the four indicator
\* channels mark the trials of the four lowest frequencies, and a trial of
\* the fifth or a higher frequency is 0 in all four.
C29_FourFrequenciesNeeded ==
    /\ \A n \in EntitiesWritten :
          Succeeded(n) =>
              /\ Persisted(<<n, "behavior", "trial_info", "stimfrequency">>)
              /\ Len(Distinct(n)) >= 4
    /\ \A n \in EntitiesWritten :
          Persisted(<<n, "behavior", "trial_info", "stimfrequency">>) =>
              IF Len(Distinct(n)) < 4
              THEN /\ pc \in {"IndexError", "skipped"}
                   /\ ~Succeeded(n)
                   /\ \A q \in 1..4 : ~Persisted(<<n, "behavior", "trial_info", FreqNames[q]>>)
                   /\ ~Persisted(<<n, "passive", "dff">>)
              ELSE /\ \A q \in 1..4 : Persisted(<<n, "behavior", "trial_info", FreqNames[q]>>)
                   /\ \A q \in 1..4 : \A t \in 1..Len(StimFreq(n)) :
                         Indicators(n, q)[t] = IF StimFreq(n)[t] = Distinct(n)[q] THEN 1 ELSE 0
                   /\ \A t \in 1..Len(StimFreq(n)) :
                         (\E r \in 5..Len(Distinct(n)) : StimFreq(n)[t] = Distinct(n)[r])
                             => \A q \in 1..4 : Indicators(n, q)[t] = 0

\* a complete store holds an entity with five frequencies, whose trial of the
\* highest one is marked in no indicator channel
C29_Witness ==
    /\ pc = "done"
    /\ \E n \in EntitiesWritten :
          /\ Succeeded(n)
          /\ Len(Distinct(n)) = 5
          /\ \E t \in 1..Len(StimFreq(n)) :
                /\ StimFreq(n)[t] = Distinct(n)[5]
                /\ \A q \in 1..4 : Indicators(n, q)[t] = 0

\* ------------------------------------------------- claims: store file handle
\* C27: no store handle is open once _create_ds has gone on to the split or
\* to the construction of the datasets, or has raised; and none is open once
\* organize_data has returned or raised.
C27_HandleScoped ==
    /\ pc \in {"split", "construct", "ready", "AssertionError"} => f = "closed"
    /\ pc \in {"done", "skipped"} \cup Errors => h5_file # "open"

\* ------------------------------------------------- claims: seeded splitting
\* C26: a second call of _train_valid_split with the same entities in the
\* same order, the same fold count and the same seed returns what the first
\* call returned (subsets, global indices and range maps); in each call one
\* generator is created from the seed and is drawn from once per entity, in
\* iteration order.
C26_SplitDeterministic ==
    /\ (pc = "construct" /\ first_run.done) => Outputs = first_run
    /\ pc = "split" =>
          /\ rng.seed = random_state
          /\ rng.hist = [e \in 1..Len(train_indxs) |->
                            <<Len(dff_all[e].v), Len(dff_valid[e].v)>>]

\* the second call has returned; both entities had a validation subset to
\* choose, and the first call did not choose the first trials
C26_Witness ==
    /\ pc = "construct" /\ first_run.done
    /\ Len(dff_all) = 2 /\ Len(stream) = 2
    /\ \A e \in 1..2 : Len(dff_valid[e].v) = 1 /\ dff_valid[e].v[1].trial >= 1

====
